---------------------------- MODULE Spec2Model ----------------------------
(***************************************************************************)
(* A model of the athletic-test core of body-measure: the three test       *)
(* controllers (BroadJumpTest, SprintTest, KickTest), the EventDetector,   *)
(* the LinesCalibrator, the smoothing filters and the frame loop of the    *)
(* application.                                                            *)
(*                                                                         *)
(* Numbers.  JavaScript numbers are modelled as exact rationals <<n, d>>   *)
(* in lowest terms with d > 0; a zero denominator stands for the IEEE      *)
(* values the code can produce by dividing by zero (<<1,0>> = Infinity,    *)
(* <<-1,0>> = -Infinity, <<0,0>> = NaN).  Rounding of floating point is    *)
(* not modelled.                                                           *)
(*                                                                         *)
(* Null.  A JavaScript value that may be null/undefined is a sequence of   *)
(* length at most one: Null = << >>, Some(v) = <<v>>.                      *)
(***************************************************************************)
EXTENDS Integers, Sequences, FiniteSets, TLC

(***************************************************************************)
(* Bounds of the model                                                     *)
(***************************************************************************)
\* the clock (performance.now(), in ms) starts here and stops at MaxTime
StartClock == 1000
MaxTime == 4800
\* the frames one attempt of the sprint or kick test may take into its history
MaxFrames == 4
MaxBallFrames == 3
\* the images the pose engine may hold at a time
MaxSent == 2
\* the calibrations a behaviour may start
MaxCalibrations == 1
\* the calibrations a behaviour of the calibration alone may start
MaxSessions == 2
\* the calls a behaviour of one library object alone may make
MaxLog == 4

(***************************************************************************)
(* Null and optional values                                                *)
(***************************************************************************)
Null == << >>
Some(v) == <<v>>
IsNull(o) == o = << >>
Val(o) == o[1]

(***************************************************************************)
(* Numbers                                                                 *)
(***************************************************************************)
Abs(i) == IF i < 0 THEN -i ELSE i
Sign(i) == IF i < 0 THEN -1 ELSE IF i > 0 THEN 1 ELSE 0

RECURSIVE GCD(_, _)
GCD(a, b) == IF b = 0 THEN a ELSE GCD(b, a % b)

\* the number n/d
Frac(n, d) ==
    IF d = 0 THEN <<Sign(n), 0>>
    ELSE LET g == GCD(Abs(n), Abs(d))
         IN  <<Sign(d) * (n \div g), Abs(d) \div g>>

R(i) == <<i, 1>>
IsNaN(a) == a = <<0, 0>>
IsFinite(a) == a[2] # 0

RNeg(a) == <<-a[1], a[2]>>
RAdd(a, b) ==
    IF IsFinite(a) /\ IsFinite(b) THEN Frac(a[1] * b[2] + b[1] * a[2], a[2] * b[2])
    ELSE IF IsNaN(a) \/ IsNaN(b) THEN <<0, 0>>
    ELSE IF IsFinite(a) THEN b
    ELSE IF IsFinite(b) THEN a
    ELSE IF a = b THEN a ELSE <<0, 0>>
RSub(a, b) == RAdd(a, RNeg(b))
RMul(a, b) ==
    IF IsFinite(a) /\ IsFinite(b) THEN Frac(a[1] * b[1], a[2] * b[2])
    ELSE IF IsNaN(a) \/ IsNaN(b) THEN <<0, 0>>
    ELSE <<Sign(a[1]) * Sign(b[1]), 0>>
RDiv(a, b) ==
    IF IsFinite(a) /\ IsFinite(b) THEN Frac(a[1] * b[2], a[2] * b[1])
    ELSE IF IsNaN(a) \/ IsNaN(b) THEN <<0, 0>>
    ELSE IF IsFinite(a) THEN <<0, 1>>
    ELSE IF IsFinite(b) THEN <<Sign(a[1]) * (IF b[1] < 0 THEN -1 ELSE 1), 0>>
    ELSE <<0, 0>>

\* comparisons: every comparison with NaN is false, as in IEEE 754
RLt(a, b) ==
    IF IsNaN(a) \/ IsNaN(b) THEN FALSE
    ELSE IF IsFinite(a) /\ IsFinite(b) THEN a[1] * b[2] < b[1] * a[2]
    ELSE IF IsFinite(a) THEN b[1] > 0
    ELSE IF IsFinite(b) THEN a[1] < 0
    ELSE a[1] < b[1]
REq(a, b) == ~IsNaN(a) /\ ~IsNaN(b) /\ a = b
RLe(a, b) == RLt(a, b) \/ REq(a, b)
RGt(a, b) == RLt(b, a)
RGe(a, b) == RLe(b, a)
RAbs(a) == <<Abs(a[1]), a[2]>>

\* the largest integer whose square is at most n (Newton's iteration from x)
RECURSIVE ISqrtFrom(_, _)
ISqrtFrom(n, x) ==
    LET y == (x + n \div x) \div 2
    IN  IF y >= x THEN x ELSE ISqrtFrom(n, y)
ISqrt(n) == IF n < 2 THEN n ELSE ISqrtFrom(n, n)

\* Math.sqrt: exact on the squares of rationals, and otherwise truncated to
\* a multiple of 1/SqrtScale
SqrtScale == 1000
RSqrt(a) ==
    IF ~IsFinite(a) THEN (IF a[1] > 0 THEN a ELSE <<0, 0>>)
    ELSE IF a[1] < 0 THEN <<0, 0>>
    ELSE LET sn == ISqrt(a[1])
             sd == ISqrt(a[2])
         IN  IF sn * sn = a[1] /\ sd * sd = a[2] THEN Frac(sn, sd)
             ELSE Frac(ISqrt((a[1] * SqrtScale * SqrtScale) \div a[2]), SqrtScale)

\* a JavaScript number used as a condition: 0 and NaN are falsy
Truthy(a) == ~IsNaN(a) /\ a # <<0, 1>>

Pt(x, y) == [x |-> x, y |-> y]

\* Math.abs(v) < 1e-10.  Every number of the model other than 0 is a ratio of
\* integers below 2^31, so its magnitude is above 1e-10
BelowEpsilon(v) == IsFinite(v) /\ v[1] = 0

(***************************************************************************)
(* PoseDetector: the static landmark helpers                               *)
(***************************************************************************)
MinVisibility == <<1, 2>>

\* getLandmarkByName: the landmark stored under the name, null when the
\* snapshot holds none
getLandmarkByName(landmarks, landmarkName) ==
    IF landmarkName \in DOMAIN landmarks THEN landmarks[landmarkName] ELSE Null

\* validateLandmark without its test of the visibility
validateLandmarkAnyVisibility(landmark) ==
    /\ ~IsNull(landmark)
    /\ RGe(Val(landmark).x, R(0)) /\ RLe(Val(landmark).x, R(1))
    /\ RGe(Val(landmark).y, R(0)) /\ RLe(Val(landmark).y, R(1))

validateLandmark(landmark) ==
    /\ ~IsNull(landmark)
    /\ ~IsNull(Val(landmark).visibility)
    /\ RGe(Val(Val(landmark).visibility), MinVisibility)
    /\ RGe(Val(landmark).x, R(0)) /\ RLe(Val(landmark).x, R(1))
    /\ RGe(Val(landmark).y, R(0)) /\ RLe(Val(landmark).y, R(1))

(***************************************************************************)
(* EventDetector                                                           *)
(***************************************************************************)
TrackIds == {"jumper", "runner", "ball"}
NoTracking == [id \in TrackIds |-> Null]
\* the ids a caller may track an object under: those of the tests and the
\* empty string, which is falsy
ObjectIds == TrackIds \cup {""}

\* the result of lineSegmentIntersection from the denominator and the
\* numerators of t and u
intersectionOf(denom, tNumerator, uNumerator) ==
    IF BelowEpsilon(RAbs(denom))
    THEN [intersects |-> FALSE, t |-> R(0), u |-> R(0)]
    ELSE [intersects |-> TRUE,
          t |-> RDiv(tNumerator, denom),
          u |-> RNeg(RDiv(uNumerator, denom))]

lineSegmentIntersection(p1, p2, p3, p4) ==
    intersectionOf(
        RSub(RMul(RSub(p1.x, p2.x), RSub(p3.y, p4.y)),
             RMul(RSub(p1.y, p2.y), RSub(p3.x, p4.x))),
        RSub(RMul(RSub(p1.x, p3.x), RSub(p3.y, p4.y)),
             RMul(RSub(p1.y, p3.y), RSub(p3.x, p4.x))),
        RSub(RMul(RSub(p1.x, p2.x), RSub(p1.y, p3.y)),
             RMul(RSub(p1.y, p2.y), RSub(p1.x, p3.x))))

\* checkLineCrossing without its test of u
crossingOfAnyU(result) ==
    IF ~result.intersects THEN [crossed |-> FALSE, tFraction |-> R(0)]
    ELSE IF RGe(result.t, R(0)) /\ RLe(result.t, R(1))
         THEN [crossed |-> TRUE, tFraction |-> result.t]
         ELSE [crossed |-> FALSE, tFraction |-> R(0)]

\* checkLineCrossing past its call of lineSegmentIntersection
crossingOf(result) ==
    IF ~result.intersects THEN [crossed |-> FALSE, tFraction |-> R(0)]
    ELSE IF /\ RGe(result.t, R(0)) /\ RLe(result.t, R(1))
            /\ RGe(result.u, R(0)) /\ RLe(result.u, R(1))
         THEN [crossed |-> TRUE, tFraction |-> result.t]
         ELSE [crossed |-> FALSE, tFraction |-> R(0)]

checkLineCrossing(p1, p2, line) ==
    crossingOf(lineSegmentIntersection(p1, p2, line.p1, line.p2))

\* detectLineCrossing past its call of checkLineCrossing
interpolatedCrossing(prevPos, currPos, prevTime, currTime, crossing) ==
    IF ~crossing.crossed THEN Null
    ELSE Some([crossed |-> TRUE,
               tFraction |-> crossing.tFraction,
               time |-> RAdd(prevTime, RMul(RSub(currTime, prevTime), crossing.tFraction)),
               position |-> Pt(RAdd(prevPos.x,
                                    RMul(RSub(currPos.x, prevPos.x), crossing.tFraction)),
                               RAdd(prevPos.y,
                                    RMul(RSub(currPos.y, prevPos.y), crossing.tFraction)))])

\* prevPos, currPos and line are optional; the result is null or a crossing
detectLineCrossing(prevPos, currPos, line, prevTime, currTime) ==
    IF IsNull(prevPos) \/ IsNull(currPos) \/ IsNull(line) THEN Null
    ELSE interpolatedCrossing(Val(prevPos), Val(currPos), prevTime, currTime,
                              checkLineCrossing(Val(prevPos), Val(currPos), Val(line)))

\* detectVerticalLineCrossing giving the time of the current sample
verticalCrossingAtCurrent(prevPos, currPos, lineX, prevTime, currTime, dx, tFraction) ==
    IF BelowEpsilon(RAbs(dx)) THEN Null
    ELSE IF RLt(tFraction, R(0)) \/ RGt(tFraction, R(1)) THEN Null
    ELSE Some([crossed |-> TRUE,
               tFraction |-> tFraction,
               time |-> currTime,
               position |-> Pt(lineX,
                               RAdd(prevPos.y, RMul(RSub(currPos.y, prevPos.y), tFraction))),
               direction |-> IF RGt(currPos.x, prevPos.x) THEN "right" ELSE "left"])

\* detectVerticalLineCrossing past its comparison of the sides
verticalCrossing(prevPos, currPos, lineX, prevTime, currTime, dx, tFraction) ==
    IF BelowEpsilon(RAbs(dx)) THEN Null
    ELSE IF RLt(tFraction, R(0)) \/ RGt(tFraction, R(1)) THEN Null
    ELSE Some([crossed |-> TRUE,
               tFraction |-> tFraction,
               time |-> RAdd(prevTime, RMul(RSub(currTime, prevTime), tFraction)),
               position |-> Pt(lineX,
                               RAdd(prevPos.y, RMul(RSub(currPos.y, prevPos.y), tFraction))),
               direction |-> IF RGt(currPos.x, prevPos.x) THEN "right" ELSE "left"])

detectVerticalLineCrossing(prevPos, currPos, lineX, prevTime, currTime) ==
    IF IsNull(prevPos) \/ IsNull(currPos) THEN Null
    ELSE IF RLt(Val(prevPos).x, lineX) = RLt(Val(currPos).x, lineX) THEN Null
    ELSE verticalCrossing(Val(prevPos), Val(currPos), lineX, prevTime, currTime,
                          RSub(Val(currPos).x, Val(prevPos).x),
                          RDiv(RSub(lineX, Val(prevPos).x),
                               RSub(Val(currPos).x, Val(prevPos).x)))

\* detectLanding without its test of the vertical speed
detectLandingAnySpeed(prevPos, currPos, groundY, minVerticalSpeed) ==
    IF IsNull(prevPos) \/ IsNull(currPos) THEN FALSE
    ELSE RLt(Val(prevPos).y, groundY) /\ RGe(Val(currPos).y, groundY)

detectLanding(prevPos, currPos, groundY, minVerticalSpeed) ==
    IF IsNull(prevPos) \/ IsNull(currPos) THEN FALSE
    ELSE LET verticalSpeed == RSub(Val(currPos).y, Val(prevPos).y)
             crossedGround == RLt(Val(prevPos).y, groundY) /\ RGe(Val(currPos).y, groundY)
         IN  crossedGround /\ RGe(verticalSpeed, minVerticalSpeed)

detectTakeoff(prevPos, currPos, groundY, minVerticalSpeed) ==
    IF IsNull(prevPos) \/ IsNull(currPos) THEN FALSE
    ELSE LET verticalSpeed == RSub(Val(prevPos).y, Val(currPos).y)
             leftGround == RGe(Val(prevPos).y, groundY) /\ RLt(Val(currPos).y, groundY)
         IN  leftGround /\ RGe(verticalSpeed, minVerticalSpeed)

\* trackPosition storing the sample for an id only where it holds none
trackPositionFirst(previousPositions, objectId, position, timestamp) ==
    IF IsNull(previousPositions[objectId])
    THEN [previousPositions EXCEPT
             ![objectId] = Some([position |-> position, timestamp |-> timestamp])]
    ELSE previousPositions

\* trackPosition: the map after the call; the value returned is the entry
\* the map held for objectId before it
trackPosition(previousPositions, objectId, position, timestamp) ==
    [previousPositions EXCEPT
        ![objectId] = Some([position |-> position, timestamp |-> timestamp])]

\* clearTracking(objectId = null)
clearTracking(previousPositions, objectId) ==
    IF ~IsNull(objectId) /\ Val(objectId) # ""
    THEN [previousPositions EXCEPT ![Val(objectId)] = Null]
    ELSE [id \in DOMAIN previousPositions |-> Null]

(***************************************************************************)
(* LinesCalibrator                                                         *)
(***************************************************************************)
TestKinds == {"broad-jump", "sprint", "kick"}

\* new LinesCalibrator().  clickHandler is the identity of the listener the
\* calibrator last created, null before the first
NewLinesCalibrator ==
    [calibrationPoints |-> << >>,
     meterValues |-> << >>,
     isCalibrating |-> FALSE,
     testType |-> Null,
     calibrationParams |-> Null,
     canvas |-> FALSE,
     clickHandler |-> Null]

\* the switch of startCalibration
MeterValuesOf(testType) ==
    CASE testType = "broad-jump" -> <<R(0), R(3)>>
      [] testType = "sprint" -> <<R(0), R(15), R(30)>>
      [] testType = "kick" -> <<R(0), R(10)>>
      [] OTHER -> << >>

CollinearityTolerance == 10

checkCollinearity(p1, p2, p3) ==
    LET crossProduct == RSub(RMul(RSub(p2.x, p1.x), RSub(p3.y, p1.y)),
                             RMul(RSub(p2.y, p1.y), RSub(p3.x, p1.x)))
    IN  RLt(RAbs(crossProduct), R(CollinearityTolerance))

\* calculateCalibrationParams: whether it warns that the sprint points are
\* not collinear
warnsNotCollinear(c) ==
    /\ c.testType = Some("sprint")
    /\ Len(c.calibrationPoints) = 3
    /\ ~checkCollinearity(c.calibrationPoints[1], c.calibrationPoints[2],
                          c.calibrationPoints[3])

\* calculateCalibrationParams taking the second point for the far end
calculateCalibrationParamsToSecond(c) ==
    IF Len(c.calibrationPoints) < 2 THEN c.calibrationParams
    ELSE LET p1 == c.calibrationPoints[1]
             p2 == c.calibrationPoints[2]
             m1 == c.meterValues[1]
             m2 == c.meterValues[Len(c.meterValues)]
             dx == RSub(p2.x, p1.x)
             dy == RSub(p2.y, p1.y)
             lineLength == RSqrt(RAdd(RMul(dx, dx), RMul(dy, dy)))
         IN  Some([origin |-> p1,
                   direction |-> Pt(RDiv(dx, lineLength), RDiv(dy, lineLength)),
                   metersPerPixel |-> RDiv(RSub(m2, m1), lineLength),
                   originMeterValue |-> m1])

\* calculateCalibrationParams taking a line of no length for one of length 1
calculateCalibrationParamsUnitLine(c) ==
    IF Len(c.calibrationPoints) < 2 THEN c.calibrationParams
    ELSE LET p1 == c.calibrationPoints[1]
             p2 == c.calibrationPoints[Len(c.calibrationPoints)]
             m1 == IF Len(c.meterValues) >= 1 THEN c.meterValues[1] ELSE <<0, 0>>
             m2 == IF Len(c.meterValues) >= 1 THEN c.meterValues[Len(c.meterValues)]
                   ELSE <<0, 0>>
             dx == RSub(p2.x, p1.x)
             dy == RSub(p2.y, p1.y)
             lineLength == IF p1 = p2 THEN R(1)
                           ELSE RSqrt(RAdd(RMul(dx, dx), RMul(dy, dy)))
         IN  Some([origin |-> p1,
                   direction |-> Pt(RDiv(dx, lineLength), RDiv(dy, lineLength)),
                   metersPerPixel |-> RDiv(RSub(m2, m1), lineLength),
                   originMeterValue |-> m1])

\* calculateCalibrationParams: the calibrator's calibrationParams afterwards
calculateCalibrationParams(c) ==
    IF Len(c.calibrationPoints) < 2 THEN c.calibrationParams
    ELSE LET p1 == c.calibrationPoints[1]
             p2 == c.calibrationPoints[Len(c.calibrationPoints)]
             \* an index past the end of meterValues reads undefined: NaN in arithmetic
             m1 == IF Len(c.meterValues) >= 1 THEN c.meterValues[1] ELSE <<0, 0>>
             m2 == IF Len(c.meterValues) >= 1 THEN c.meterValues[Len(c.meterValues)]
                   ELSE <<0, 0>>
             dx == RSub(p2.x, p1.x)
             dy == RSub(p2.y, p1.y)
             lineLength == RSqrt(RAdd(RMul(dx, dx), RMul(dy, dy)))
             metersPerPixel == RDiv(RSub(m2, m1), lineLength)
         IN  Some([origin |-> p1,
                   direction |-> Pt(RDiv(dx, lineLength), RDiv(dy, lineLength)),
                   metersPerPixel |-> metersPerPixel,
                   originMeterValue |-> m1])

\* projectPxToM without the scaling by metersPerPixel
projectPxToMUnscaled(c, point) ==
    IF IsNull(c.calibrationParams) THEN Null
    ELSE Some(RAdd(Val(c.calibrationParams).originMeterValue,
                   RAdd(RMul(RSub(point.x, Val(c.calibrationParams).origin.x),
                             Val(c.calibrationParams).direction.x),
                        RMul(RSub(point.y, Val(c.calibrationParams).origin.y),
                             Val(c.calibrationParams).direction.y))))

projectPxToM(c, point) ==
    IF IsNull(c.calibrationParams) THEN Null
    ELSE LET cp == Val(c.calibrationParams)
             dx == RSub(point.x, cp.origin.x)
             dy == RSub(point.y, cp.origin.y)
             projection == RAdd(RMul(dx, cp.direction.x), RMul(dy, cp.direction.y))
         IN  Some(RAdd(cp.originMeterValue, RMul(projection, cp.metersPerPixel)))

\* projectMToPx multiplying by metersPerPixel where it is to divide
projectMToPxTimes(c, meters) ==
    IF IsNull(c.calibrationParams) THEN Null
    ELSE Some(Pt(RAdd(Val(c.calibrationParams).origin.x,
                      RMul(RMul(RSub(meters, Val(c.calibrationParams).originMeterValue),
                                Val(c.calibrationParams).metersPerPixel),
                           Val(c.calibrationParams).direction.x)),
                 RAdd(Val(c.calibrationParams).origin.y,
                      RMul(RMul(RSub(meters, Val(c.calibrationParams).originMeterValue),
                                Val(c.calibrationParams).metersPerPixel),
                           Val(c.calibrationParams).direction.y))))

projectMToPx(c, meters) ==
    IF IsNull(c.calibrationParams) THEN Null
    ELSE LET cp == Val(c.calibrationParams)
             pixelDistance == RDiv(RSub(meters, cp.originMeterValue), cp.metersPerPixel)
         IN  Some(Pt(RAdd(cp.origin.x, RMul(pixelDistance, cp.direction.x)),
                     RAdd(cp.origin.y, RMul(pixelDistance, cp.direction.y))))

getDistanceInMeters(c, point1, point2) ==
    IF IsNull(c.calibrationParams) THEN Null
    ELSE LET meters1 == projectPxToM(c, point1)
             meters2 == projectPxToM(c, point2)
         IN  IF IsNull(meters1) \/ IsNull(meters2) THEN Null
             ELSE Some(RAbs(RSub(Val(meters2), Val(meters1))))

\* getCalibrationData, without its wall-clock timestamp
getCalibrationData(c) ==
    [testType |-> c.testType,
     points |-> c.calibrationPoints,
     meterValues |-> c.meterValues,
     params |-> c.calibrationParams]

\* localStorage['athleticTestCalibrations']: null, or the object holding a
\* saved calibration (or nothing) per test kind
NoCalibrations == [k \in TestKinds |-> Null]

\* JSON.parse(JSON.stringify(v)) of a number: NaN and the infinities are
\* written as null
JSONNumber(a) == IF IsFinite(a) THEN a ELSE Null
JSONPoint(p) == Pt(JSONNumber(p.x), JSONNumber(p.y))
JSONParams(cp) ==
    [origin |-> JSONPoint(cp.origin),
     direction |-> JSONPoint(cp.direction),
     metersPerPixel |-> JSONNumber(cp.metersPerPixel),
     originMeterValue |-> JSONNumber(cp.originMeterValue)]

\* JSON.parse(JSON.stringify(data)) of the data of one calibration
JSONCalibration(data) ==
    [testType |-> data.testType,
     points |-> [i \in DOMAIN data.points |-> JSONPoint(data.points[i])],
     meterValues |-> [i \in DOMAIN data.meterValues |-> JSONNumber(data.meterValues[i])],
     params |-> IF IsNull(data.params) THEN Null
                ELSE Some(JSONParams(Val(data.params)))]

\* saveCalibration: the stored item afterwards, as JSON.parse reads it
saveCalibration(c, saved) ==
    LET calibrations == IF IsNull(saved) THEN NoCalibrations ELSE Val(saved)
    IN  IF IsNull(c.testType) \/ Val(c.testType) \notin TestKinds THEN Some(calibrations)
        ELSE Some([calibrations EXCEPT
                      ![Val(c.testType)] = Some(JSONCalibration(getCalibrationData(c)))])

\* loadCalibration(testType): the calibrator afterwards and what it returned
loadCalibration(c, testType, saved) ==
    IF IsNull(saved) THEN [calibrator |-> c, returned |-> FALSE]
    ELSE IF IsNull(Val(saved)[testType]) THEN [calibrator |-> c, returned |-> FALSE]
    ELSE [calibrator |-> [c EXCEPT !.testType = Some(testType),
                                   !.calibrationPoints = Val(Val(saved)[testType]).points,
                                   !.meterValues = Val(Val(saved)[testType]).meterValues,
                                   !.calibrationParams = Val(Val(saved)[testType]).params],
          returned |-> TRUE]

\* clearCalibration(testType): the calibrator and the stored item afterwards;
\* with nothing stored it returns at once
clearCalibration(c, testType, saved) ==
    IF IsNull(saved) THEN [calibrator |-> c, saved |-> saved]
    ELSE [calibrator |-> IF c.testType = Some(testType)
                         THEN [c EXCEPT !.calibrationPoints = << >>,
                                        !.meterValues = << >>,
                                        !.calibrationParams = Null]
                         ELSE c,
          saved |-> Some([Val(saved) EXCEPT ![testType] = Null])]

\* cancelCalibration(): the calibrator afterwards
cancelCalibration(c) ==
    [c EXCEPT !.isCalibrating = FALSE,
              !.calibrationPoints = << >>,
              !.meterValues = << >>]

(***************************************************************************)
(* The scale descriptor handed to processFrame                             *)
(***************************************************************************)
ImageWidth == 640
ImageHeight == 480
FallbackScale ==
    [pxPerCm |-> R(5), cmPerPx |-> <<1, 5>>, pxPerM |-> R(500),
     imageWidth |-> R(ImageWidth), imageHeight |-> R(ImageHeight)]

\* a number read from a field that may hold null: null is 0 in arithmetic
NumOf(o) == IF IsNull(o) THEN R(0) ELSE Val(o)

(***************************************************************************)
(* BaseAthleticTest                                                        *)
(***************************************************************************)
\* startTest leaving the result of the attempt before
BaseStartTestKeepingResults(test, t) ==
    IF ~test.isCalibrated
    THEN [test |-> test, threw |-> TRUE]
    ELSE [test |-> [test EXCEPT !.isRunning = TRUE, !.startTime = Some(R(t))],
          threw |-> FALSE]

\* startTest at clock value t: the test it leaves, and whether it threw
BaseStartTest(test, t) ==
    IF ~test.isCalibrated
    THEN [test |-> test, threw |-> TRUE]
    ELSE [test |-> [test EXCEPT !.isRunning = TRUE, !.startTime = Some(R(t)),
                                !.results = Null],
          threw |-> FALSE]

BaseStopTest(test) == [test EXCEPT !.isRunning = FALSE]

\* a resetTest that leaves the running flag alone
BaseResetTestStillRunning(test) == [test EXCEPT !.startTime = Null, !.results = Null]

BaseResetTest(test) ==
    [test EXCEPT !.isRunning = FALSE, !.startTime = Null, !.results = Null]

(***************************************************************************)
(* BroadJumpTest                                                           *)
(***************************************************************************)
NewBroadJumpTest ==
    [testType |-> "broad-jump",
     isRunning |-> FALSE,
     isCalibrated |-> FALSE,
     startTime |-> Null,
     results |-> Null,
     linesCalibrator |-> NewLinesCalibrator,
     eventDetector |-> NoTracking,
     landingDetected |-> FALSE,
     landingTime |-> Null,
     takeoffPosition |-> Null,
     landingPosition |-> Null,
     finalizationTimer |-> Null]

SettleDelay == 1000
GroundFraction == <<4, 5>>
MinVerticalSpeed == 2

\* the pixel position processFrame takes for the middle of two landmarks
pixelPositionOf(left, right, scale) ==
    Pt(RMul(RDiv(RAdd(left.x, right.x), R(2)), scale.imageWidth),
       RMul(RDiv(RAdd(left.y, right.y), R(2)), scale.imageHeight))

\* the takeoff block without its test that no takeoff is recorded yet
BroadJumpTakeoffAgain(test, prevData, pixelPosition, scale) ==
    IF detectTakeoff(Some(prevData.position), Some(pixelPosition),
                     RMul(scale.imageHeight, GroundFraction), R(MinVerticalSpeed))
    THEN [test EXCEPT !.takeoffPosition = Some(pixelPosition)]
    ELSE test

\* processFrame of the jump test, its takeoff block: the test afterwards
BroadJumpTakeoff(test, prevData, pixelPosition, scale) ==
    IF /\ IsNull(test.takeoffPosition)
       /\ detectTakeoff(Some(prevData.position), Some(pixelPosition),
                        RMul(scale.imageHeight, GroundFraction), R(MinVerticalSpeed))
    THEN [test EXCEPT !.takeoffPosition = Some(pixelPosition)]
    ELSE test

\* the landing block without its test that no landing is recorded yet
BroadJumpLandingAgain(test, prevData, pixelPosition, timestamp, scale, timerId) ==
    IF /\ ~IsNull(test.takeoffPosition)
       /\ detectLanding(Some(prevData.position), Some(pixelPosition),
                        RMul(scale.imageHeight, GroundFraction), R(MinVerticalSpeed))
    THEN [test |-> [test EXCEPT !.landingDetected = TRUE,
                                !.landingTime = Some(timestamp),
                                !.landingPosition = Some(pixelPosition),
                                !.finalizationTimer = Some(timerId)],
          setTimer |-> TRUE]
    ELSE [test |-> test, setTimer |-> FALSE]

\* processFrame of the jump test, its landing block: the test afterwards and
\* whether it set the settle timer, whose identity is timerId
BroadJumpLanding(test, prevData, pixelPosition, timestamp, scale, timerId) ==
    IF /\ ~IsNull(test.takeoffPosition)
       /\ ~test.landingDetected
       /\ detectLanding(Some(prevData.position), Some(pixelPosition),
                        RMul(scale.imageHeight, GroundFraction), R(MinVerticalSpeed))
    THEN [test |-> [test EXCEPT !.landingDetected = TRUE,
                                !.landingTime = Some(timestamp),
                                !.landingPosition = Some(pixelPosition),
                                !.finalizationTimer = Some(timerId)],
          setTimer |-> TRUE]
    ELSE [test |-> test, setTimer |-> FALSE]

\* processFrame of the jump test from trackPosition on
BroadJumpTrackFrame(test, pixelPosition, timestamp, scale, timerId) ==
    IF IsNull(test.eventDetector["jumper"])
    THEN [test |-> [test EXCEPT !.eventDetector =
                        trackPosition(@, "jumper", pixelPosition, timestamp)],
          setTimer |-> FALSE]
    ELSE BroadJumpLanding(
             BroadJumpTakeoff([test EXCEPT !.eventDetector =
                                   trackPosition(@, "jumper", pixelPosition, timestamp)],
                              Val(test.eventDetector["jumper"]), pixelPosition, scale),
             Val(test.eventDetector["jumper"]), pixelPosition, timestamp, scale, timerId)

\* processFrame of the jump test.  The result is the test afterwards and
\* whether a settle timer was set; timerId is the identity setTimeout would
\* return.
BroadJumpProcessFrame(test, landmarks, timestamp, scale, timerId) ==
    IF ~test.isRunning \/ IsNull(landmarks) THEN [test |-> test, setTimer |-> FALSE]
    ELSE IF \/ ~validateLandmark(getLandmarkByName(Val(landmarks), "left_ankle"))
            \/ ~validateLandmark(getLandmarkByName(Val(landmarks), "right_ankle"))
         THEN [test |-> test, setTimer |-> FALSE]
    ELSE BroadJumpTrackFrame(
             test,
             pixelPositionOf(Val(getLandmarkByName(Val(landmarks), "left_ankle")),
                             Val(getLandmarkByName(Val(landmarks), "right_ankle")), scale),
             timestamp, scale, timerId)

\* finalizeMeasurement of the jump test past the distance it computed
BroadJumpMeasured(test, distance, jumpTime) ==
    IF IsNull(distance) THEN [test |-> test, done |-> FALSE]
    ELSE [test |-> BaseStopTest(
                       [test EXCEPT !.results =
                            Some([distance |-> Val(distance),
                                  takeoffSpeed |-> RDiv(Val(distance), RDiv(jumpTime, R(1000))),
                                  jumpTime |-> jumpTime,
                                  takeoffPosition |-> Val(test.takeoffPosition),
                                  landingPosition |-> Val(test.landingPosition)])]),
          done |-> TRUE]

\* finalizeMeasurement of the jump test: done tells whether it got past its
\* two early returns, and so stopped the test and called onTestComplete
BroadJumpFinalizeMeasurement(test, scale) ==
    IF IsNull(test.takeoffPosition) \/ IsNull(test.landingPosition)
    THEN [test |-> test, done |-> FALSE]
    ELSE BroadJumpMeasured(test,
                           getDistanceInMeters(test.linesCalibrator,
                                               Val(test.takeoffPosition),
                                               Val(test.landingPosition)),
                           RSub(NumOf(test.landingTime), NumOf(test.startTime)))

\* resetTest of the jump test; the pending timer it clears is the one
\* finalizationTimer names
BroadJumpResetTest(test) ==
    [BaseResetTest(test) EXCEPT !.landingDetected = FALSE,
                                !.landingTime = Null,
                                !.takeoffPosition = Null,
                                !.landingPosition = Null,
                                !.finalizationTimer = Null,
                                !.eventDetector = clearTracking(@, Null)]

(***************************************************************************)
(* SmoothingFilter, SpeedSmoother, AccelerationCalculator                  *)
(***************************************************************************)
RECURSIVE SumSeq(_)
SumSeq(q) == IF q = << >> THEN R(0) ELSE RAdd(q[1], SumSeq(Tail(q)))

\* getSmoothedValue of a filter whose dataBuffer is buffer
getSmoothedValue(buffer) ==
    IF Len(buffer) = 0 THEN R(0) ELSE RDiv(SumSeq(buffer), R(Len(buffer)))

\* addValue without its shift
addValueUnbounded(buffer, windowSize, value) == Append(buffer, value)

\* addValue: the dataBuffer afterwards; the value returned is its
\* getSmoothedValue
addValue(buffer, windowSize, value) ==
    LET pushed == Append(buffer, value)
    IN  IF Len(pushed) > windowSize THEN Tail(pushed) ELSE pushed

SpeedWindow == 5
AccelWindow == 3

NewSpeedSmoother ==
    [positionFilter |-> << >>,
     speedFilter |-> << >>,
     previousPosition |-> Null,
     previousTime |-> Null,
     maxSpeed |-> R(0),
     speedHistory |-> << >>]

\* addPosition computing the speed without its test of dt
speedToAnyDt(sm, smoothedPosition, timestamp) ==
    IF /\ ~IsNull(sm.previousPosition)
       /\ ~IsNull(sm.previousTime) /\ Truthy(Val(sm.previousTime))
    THEN RDiv(RSqrt(RAdd(RMul(RSub(smoothedPosition.x, Val(sm.previousPosition).x),
                              RSub(smoothedPosition.x, Val(sm.previousPosition).x)),
                         RMul(RSub(smoothedPosition.y, Val(sm.previousPosition).y),
                              RSub(smoothedPosition.y, Val(sm.previousPosition).y)))),
              RSub(timestamp, Val(sm.previousTime)))
    ELSE R(0)

\* addPosition, the speed it computes from the previous position and time
\* to the smoothed position
speedTo(sm, smoothedPosition, timestamp) ==
    IF /\ ~IsNull(sm.previousPosition)
       /\ ~IsNull(sm.previousTime) /\ Truthy(Val(sm.previousTime))
       /\ RGt(RSub(timestamp, Val(sm.previousTime)), R(0))
    THEN RDiv(RSqrt(RAdd(RMul(RSub(smoothedPosition.x, Val(sm.previousPosition).x),
                              RSub(smoothedPosition.x, Val(sm.previousPosition).x)),
                         RMul(RSub(smoothedPosition.y, Val(sm.previousPosition).y),
                              RSub(smoothedPosition.y, Val(sm.previousPosition).y)))),
              RSub(timestamp, Val(sm.previousTime)))
    ELSE R(0)

\* addPosition past its two filters
smoothedTo(sm, positionFilter, smoothedPosition, speedFilter, smoothedSpeed, timestamp) ==
    [positionFilter |-> positionFilter,
     speedFilter |-> speedFilter,
     previousPosition |-> Some(smoothedPosition),
     previousTime |-> Some(timestamp),
     maxSpeed |-> IF RGt(smoothedSpeed, sm.maxSpeed) THEN smoothedSpeed ELSE sm.maxSpeed,
     speedHistory |-> Append(sm.speedHistory,
                             [time |-> timestamp, speed |-> smoothedSpeed,
                              position |-> smoothedPosition])]

\* addPosition past its position filter
addSmoothedPosition(sm, positionFilter, smoothedPosition, timestamp) ==
    smoothedTo(sm, positionFilter, smoothedPosition,
               addValue(sm.speedFilter, SpeedWindow, speedTo(sm, smoothedPosition, timestamp)),
               getSmoothedValue(addValue(sm.speedFilter, SpeedWindow,
                                         speedTo(sm, smoothedPosition, timestamp))),
               timestamp)

\* addPosition: the smoother afterwards; the value returned is the speed of
\* the last entry of its speedHistory
addPosition(sm, position, timestamp) ==
    addSmoothedPosition(sm,
                        addValue(sm.positionFilter, SpeedWindow, position.x),
                        Pt(getSmoothedValue(addValue(sm.positionFilter, SpeedWindow, position.x)),
                           position.y),
                        timestamp)

\* addSpeed of a calculator of the window size given: its speedHistory
\* afterwards
addSpeed(windowSize, speedHistory, speed, timestamp) ==
    LET pushed == Append(speedHistory, [speed |-> speed, timestamp |-> timestamp])
    IN  IF Len(pushed) > windowSize * 2 THEN Tail(pushed) ELSE pushed

\* calculateAcceleration past its slice of the recent samples
accelerationOf(recentData) ==
    IF Len(recentData) < 2 THEN R(0)
    ELSE IF RLe(RSub(recentData[Len(recentData)].timestamp,
                     recentData[Len(recentData) - 1].timestamp), R(0))
    THEN R(0)
    ELSE RDiv(RSub(recentData[Len(recentData)].speed,
                   recentData[Len(recentData) - 1].speed),
              RSub(recentData[Len(recentData)].timestamp,
                   recentData[Len(recentData) - 1].timestamp))

\* Array.prototype.slice(-n): the last n elements, and all of them for n = 0
\* as -0 is 0
SliceLast(q, n) ==
    IF n = 0 \/ n >= Len(q) THEN q ELSE SubSeq(q, Len(q) - n + 1, Len(q))

calculateAcceleration(windowSize, speedHistory) ==
    IF Len(speedHistory) < 2 THEN R(0)
    ELSE accelerationOf(SliceLast(speedHistory,
                                  IF Len(speedHistory) < windowSize
                                  THEN Len(speedHistory) ELSE windowSize))

(***************************************************************************)
(* SprintTest                                                              *)
(***************************************************************************)
NoCrossingTimes == [t0 |-> Null, t15 |-> Null, t30 |-> Null]
crossingPositions == <<R(0), R(15), R(30)>>

NewSprintTest ==
    [testType |-> "sprint",
     isRunning |-> FALSE,
     isCalibrated |-> FALSE,
     startTime |-> Null,
     results |-> Null,
     linesCalibrator |-> NewLinesCalibrator,
     eventDetector |-> NoTracking,
     speedSmoother |-> NewSpeedSmoother,
     accelerationCalculator |-> << >>,
     crossingTimes |-> NoCrossingTimes,
     nextCrossingIndex |-> 0]

\* recordCrossing with its cases counted from 1
recordCrossingFromOne(test, index, time) ==
    LET relativeTime == RSub(time, NumOf(test.startTime))
    IN  CASE index = 1 -> [test.crossingTimes EXCEPT !.t0 = Some(relativeTime)]
          [] index = 2 -> [test.crossingTimes EXCEPT !.t15 = Some(relativeTime)]
          [] index = 3 -> [test.crossingTimes EXCEPT !.t30 = Some(relativeTime)]
          [] OTHER -> test.crossingTimes

\* recordCrossing: the crossingTimes afterwards
recordCrossing(test, index, time) ==
    LET relativeTime == RSub(time, NumOf(test.startTime))
    IN  CASE index = 0 -> [test.crossingTimes EXCEPT !.t0 = Some(relativeTime)]
          [] index = 1 -> [test.crossingTimes EXCEPT !.t15 = Some(relativeTime)]
          [] index = 2 -> [test.crossingTimes EXCEPT !.t30 = Some(relativeTime)]
          [] OTHER -> test.crossingTimes

\* finalizeSprint past its splits and total time
SprintMeasured(test, split0to15, split15to30, totalTime) ==
    BaseStopTest(
        [test EXCEPT !.results =
            Some([splits |-> [s0to15 |-> split0to15, s15to30 |-> split15to30],
                  totalTime |-> totalTime,
                  avgSpeedTotal |-> RDiv(R(30), totalTime),
                  maxSpeed |-> test.speedSmoother.maxSpeed,
                  avgAccel0to15 |-> RDiv(R(15), RMul(split0to15, split0to15)),
                  avgAccel15to30 |-> RDiv(R(15), RMul(split15to30, split15to30)),
                  crossingTimes |-> test.crossingTimes,
                  speedHistory |-> test.speedSmoother.speedHistory])])

\* the total time taken from the clock's origin, not from the first line
SprintSplitsFromStart(test, t0, t15, t30) ==
    SprintMeasured(test, RSub(t15, t0), RSub(t30, t15), t30)

\* finalizeSprint past the conversion of the three times to seconds
SprintSplits(test, t0, t15, t30) ==
    SprintMeasured(test, RSub(t15, t0), RSub(t30, t15), RSub(t30, t0))

\* finalizeSprint: the test afterwards; it always calls onTestComplete
finalizeSprint(test) ==
    SprintSplits(test, RDiv(NumOf(test.crossingTimes.t0), R(1000)),
                 RDiv(NumOf(test.crossingTimes.t15), R(1000)),
                 RDiv(NumOf(test.crossingTimes.t30), R(1000)))

\* processFrame of the sprint test past recordCrossing: it finalizes on the
\* last line
SprintRecorded(index, crossed) ==
    IF crossed.nextCrossingIndex >= Len(crossingPositions)
    THEN [test |-> finalizeSprint(crossed), recorded |-> Some(index), finalized |-> TRUE]
    ELSE [test |-> crossed, recorded |-> Some(index), finalized |-> FALSE]

\* processFrame of the sprint test past detectLineCrossing; tracked is the
\* test with the frame's position taken in
SprintCrossing(test, tracked, crossing) ==
    IF IsNull(crossing) \/ ~Val(crossing).crossed
    THEN [test |-> tracked, recorded |-> Null, finalized |-> FALSE]
    ELSE SprintRecorded(test.nextCrossingIndex,
                        [tracked EXCEPT
                            !.crossingTimes = recordCrossing(test, test.nextCrossingIndex,
                                                             Val(crossing).time),
                            !.nextCrossingIndex = @ + 1])

\* processFrame of the sprint test past projectMToPx of the next line
SprintTargetLine(test, tracked, prevData, pixelPosition, timestamp, scale, targetPixelPos) ==
    IF IsNull(targetPixelPos)
    THEN [test |-> tracked, recorded |-> Null, finalized |-> FALSE]
    ELSE SprintCrossing(test, tracked,
                        detectLineCrossing(Some(prevData.position), Some(pixelPosition),
                                           Some([p1 |-> Pt(Val(targetPixelPos).x, R(0)),
                                                 p2 |-> Pt(Val(targetPixelPos).x,
                                                           scale.imageHeight)]),
                                           prevData.timestamp, timestamp))

\* processFrame of the sprint test past trackPosition
SprintTracked(test, tracked, pixelPosition, timestamp, scale) ==
    IF \/ IsNull(test.eventDetector["runner"])
       \/ ~(test.nextCrossingIndex < Len(crossingPositions))
    THEN [test |-> tracked, recorded |-> Null, finalized |-> FALSE]
    ELSE SprintTargetLine(test, tracked, Val(test.eventDetector["runner"]),
                          pixelPosition, timestamp, scale,
                          projectMToPx(test.linesCalibrator,
                                       crossingPositions[test.nextCrossingIndex + 1]))

\* processFrame of the sprint test past speedSmoother.addPosition
SprintSmoothed(test, speedSmoother, pixelPosition, timestamp, scale) ==
    SprintTracked(
        test,
        [test EXCEPT
            !.speedSmoother = speedSmoother,
            !.accelerationCalculator =
                addSpeed(AccelWindow, @,
                         RDiv(RMul(speedSmoother.speedHistory[
                                          Len(speedSmoother.speedHistory)].speed,
                                      scale.cmPerPx), R(100)),
                         timestamp),
            !.eventDetector = trackPosition(@, "runner", pixelPosition, timestamp)],
        pixelPosition, timestamp, scale)

\* processFrame of the sprint test from the pixel position on
SprintTrackFrame(test, pixelPosition, timestamp, scale) ==
    SprintSmoothed(test, addPosition(test.speedSmoother, pixelPosition, timestamp),
                   pixelPosition, timestamp, scale)

\* processFrame of the sprint test: the test afterwards, the index of the
\* line whose crossing the frame recorded (null when none) and whether the
\* frame finalized the sprint
SprintProcessFrame(test, landmarks, timestamp, scale) ==
    IF ~test.isRunning \/ IsNull(landmarks)
    THEN [test |-> test, recorded |-> Null, finalized |-> FALSE]
    ELSE IF \/ ~validateLandmark(getLandmarkByName(Val(landmarks), "left_hip"))
            \/ ~validateLandmark(getLandmarkByName(Val(landmarks), "right_hip"))
         THEN [test |-> test, recorded |-> Null, finalized |-> FALSE]
    ELSE SprintTrackFrame(
             test,
             pixelPositionOf(Val(getLandmarkByName(Val(landmarks), "left_hip")),
                             Val(getLandmarkByName(Val(landmarks), "right_hip")), scale),
             timestamp, scale)

\* resetTest of the sprint test without the reset of its two filters
SprintResetTestKeepingFilters(test) ==
    [BaseResetTest(test) EXCEPT !.crossingTimes = NoCrossingTimes,
                                !.nextCrossingIndex = 0,
                                !.eventDetector = clearTracking(@, Null)]

SprintResetTest(test) ==
    [BaseResetTest(test) EXCEPT !.crossingTimes = NoCrossingTimes,
                                !.nextCrossingIndex = 0,
                                !.speedSmoother = NewSpeedSmoother,
                                !.accelerationCalculator = << >>,
                                !.eventDetector = clearTracking(@, Null)]

(***************************************************************************)
(* BallTracker                                                             *)
(***************************************************************************)
\* trackingId, a counter that is written and never read, is left out
NewBallTracker ==
    [isTracking |-> FALSE, ballHistory |-> << >>, lastDetectedBall |-> Null]

startTracking(bt) ==
    [bt EXCEPT !.isTracking = TRUE, !.ballHistory = << >>, !.lastDetectedBall = Null]

stopTracking(bt) == [bt EXCEPT !.isTracking = FALSE]

clearHistory(bt) == [bt EXCEPT !.ballHistory = << >>, !.lastDetectedBall = Null]

\* detectBall, given the candidate selectBestBallCandidate chose (null when
\* none): the tracker afterwards and the ball returned.  The candidate is an
\* input here, standing for any blob detection; findMotionBlobs as the
\* repository has it proposes one only from an earlier detection.
detectBall(bt, bestCandidate, timestamp) ==
    IF ~bt.isTracking THEN [tracker |-> bt, ball |-> Null]
    ELSE IF ~IsNull(bestCandidate)
         THEN [tracker |-> [bt EXCEPT
                               !.ballHistory =
                                   Append(@, [position |-> Val(bestCandidate).position,
                                              radius |-> Val(bestCandidate).radius,
                                              timestamp |-> timestamp,
                                              confidence |-> Val(bestCandidate).confidence]),
                               !.lastDetectedBall = bestCandidate],
               ball |-> bestCandidate]
         ELSE [tracker |-> bt, ball |-> Null]

\* the two entries predictNextPosition and evaluateDirectionConsistency read
LatestBall(bt) == bt.ballHistory[Len(bt.ballHistory)]
PreviousBall(bt) == bt.ballHistory[Len(bt.ballHistory) - 1]

\* predictNextPosition(): the linear prediction one frame of 16 ms ahead,
\* null with fewer than two detections; velocity, which no caller reads, is
\* left out
predictedFrom(latest, previous) ==
    Some([position |->
              Pt(RAdd(latest.position.x,
                      RMul(RDiv(RSub(latest.position.x, previous.position.x),
                                RSub(latest.timestamp, previous.timestamp)), R(16))),
                 RAdd(latest.position.y,
                      RMul(RDiv(RSub(latest.position.y, previous.position.y),
                                RSub(latest.timestamp, previous.timestamp)), R(16)))),
          radius |-> latest.radius])

predictNextPosition(bt) ==
    IF Len(bt.ballHistory) < 2 THEN Null
    ELSE predictedFrom(LatestBall(bt), PreviousBall(bt))

\* findMotionBlobs(imageData) proposing the ball of the first image it sees
findMotionBlobsSeeingFirstBall(bt) ==
    IF IsNull(bt.lastDetectedBall)
    THEN <<[position |-> Pt(R(60), R(240)), radius |-> R(10), confidence |-> <<4, 5>>]>>
    ELSE IF IsNull(predictNextPosition(bt)) THEN << >>
    ELSE <<[position |-> Val(predictNextPosition(bt)).position,
            radius |-> Val(predictNextPosition(bt)).radius,
            confidence |-> <<4, 5>>]>>

\* findMotionBlobs(imageData): the image is read and not used; the one
\* candidate is the position predicted from the last detected ball
findMotionBlobs(bt) ==
    IF IsNull(bt.lastDetectedBall) \/ IsNull(predictNextPosition(bt)) THEN << >>
    ELSE <<[position |-> Val(predictNextPosition(bt)).position,
            radius |-> Val(predictNextPosition(bt)).radius,
            confidence |-> <<4, 5>>]>>

\* evaluatePosition(position)
evaluatePosition(position) ==
    IF RLt(position.x, R(0)) \/ RLt(position.y, R(0)) THEN <<1, 10>>
    ELSE IF RGt(position.x, R(1000)) \/ RGt(position.y, R(1000)) THEN <<1, 10>>
    ELSE R(1)

\* the square of the distance between two points, and the dot product of the
\* steps a -> b and b -> c
SquaredDistance(a, b) ==
    RAdd(RMul(RSub(b.x, a.x), RSub(b.x, a.x)), RMul(RSub(b.y, a.y), RSub(b.y, a.y)))
DotOfSteps(a, b, c) ==
    RAdd(RMul(RSub(b.x, a.x), RSub(c.x, b.x)), RMul(RSub(b.y, a.y), RSub(c.y, b.y)))

\* evaluateDirectionConsistency(candidate) = max(0.2, 1 - angle / (pi / 4)),
\* angle being the turn from the last step to the step to the candidate:
\* 0.5 for a step of length 0, 1 for no turn, 0.2 for a turn of 45 degrees or
\* more (cos <= sqrt(1/2)); for a turn in between, which a predicted position
\* never makes, the model has the score of a turn of 45 degrees
evaluateDirectionConsistency(bt, candidate) ==
    IF Len(bt.ballHistory) < 2 THEN R(1)
    ELSE IF \/ SquaredDistance(PreviousBall(bt).position, LatestBall(bt).position) = R(0)
            \/ SquaredDistance(LatestBall(bt).position, candidate.position) = R(0)
    THEN <<1, 2>>
    ELSE IF /\ RGt(DotOfSteps(PreviousBall(bt).position, LatestBall(bt).position,
                              candidate.position), R(0))
            /\ RMul(DotOfSteps(PreviousBall(bt).position, LatestBall(bt).position,
                               candidate.position),
                    DotOfSteps(PreviousBall(bt).position, LatestBall(bt).position,
                               candidate.position))
                 = RMul(SquaredDistance(PreviousBall(bt).position,
                                        LatestBall(bt).position),
                        SquaredDistance(LatestBall(bt).position, candidate.position))
    THEN R(1)
    ELSE <<1, 5>>

\* evaluateMotionConsistency(candidate, timestamp); the speed is compared with
\* minSpeed 1 and maxSpeed 100 by its square
evaluateMotionConsistency(bt, candidate, timestamp) ==
    IF Len(bt.ballHistory) = 0 THEN R(1)
    ELSE IF ~RGt(RSub(timestamp, LatestBall(bt).timestamp), R(0)) THEN <<1, 2>>
    ELSE IF \/ RLt(SquaredDistance(LatestBall(bt).position, candidate.position),
                   RMul(RSub(timestamp, LatestBall(bt).timestamp),
                        RSub(timestamp, LatestBall(bt).timestamp)))
            \/ RGt(SquaredDistance(LatestBall(bt).position, candidate.position),
                   RMul(R(10000),
                        RMul(RSub(timestamp, LatestBall(bt).timestamp),
                             RSub(timestamp, LatestBall(bt).timestamp))))
    THEN <<3, 10>>
    ELSE IF Len(bt.ballHistory) >= 2 THEN evaluateDirectionConsistency(bt, candidate)
    ELSE <<4, 5>>

\* scoreBallCandidate(candidate, timestamp); every factor lies in [0, 1], and
\* so does the product, which Math.max(0, Math.min(1, score)) leaves alone
scoreBallCandidate(bt, candidate, timestamp) ==
    RMul(RMul(RMul(IF Truthy(candidate.confidence) THEN candidate.confidence
                   ELSE <<1, 2>>,
                   IF RLt(candidate.radius, R(5)) \/ RGt(candidate.radius, R(50))
                   THEN <<1, 2>> ELSE R(1)),
              IF Len(bt.ballHistory) > 0
              THEN evaluateMotionConsistency(bt, candidate, timestamp) ELSE R(1)),
         evaluatePosition(candidate.position))

\* selectBestBallCandidate(candidates, timestamp) for the candidates
\* findMotionBlobs returns, one at most
selectBestBallCandidate(bt, candidates, timestamp) ==
    IF Len(candidates) = 0 THEN Null
    ELSE IF RGt(scoreBallCandidate(bt, candidates[1], timestamp), <<1, 2>>)
    THEN Some(candidates[1])
    ELSE Null

\* the candidate detectBall of the repository's tracker works with
chosenCandidate(bt, timestamp) ==
    selectBestBallCandidate(bt, findMotionBlobs(bt), timestamp)

(***************************************************************************)
(* KickTest                                                                *)
(***************************************************************************)
NewKickTest ==
    [testType |-> "kick",
     isRunning |-> FALSE,
     isCalibrated |-> FALSE,
     startTime |-> Null,
     results |-> Null,
     linesCalibrator |-> NewLinesCalibrator,
     ballTracker |-> NewBallTracker,
     eventDetector |-> NoTracking,
     ballDetected |-> FALSE,
     startLineTime |-> Null,
     endLineTime |-> Null,
     ballSpeed |-> Null]

\* a line time used as a condition: null, 0 and NaN are falsy
HasTime(o) == ~IsNull(o) /\ Truthy(Val(o))

KickDistance == 10

\* startTest of the kick test forgetting the line times of the attempt before
KickStartedClearingLines(started) ==
    IF started.threw THEN started
    ELSE [started EXCEPT !.test.ballTracker = startTracking(@),
                         !.test.startLineTime = Null,
                         !.test.endLineTime = Null]

\* startTest of the kick test: the statement after super.startTest() runs only
\* when super.startTest() returned
KickStarted(started) ==
    IF started.threw THEN started
    ELSE [started EXCEPT !.test.ballTracker = startTracking(@)]

\* startTest of the kick test starting the tracker whatever super.startTest() did
KickStartTestTrackingFirst(test, t) ==
    [BaseStartTest(test, t) EXCEPT !.test.ballTracker = startTracking(@)]

KickStartTest(test, t) == KickStarted(BaseStartTest(test, t))

\* stopTest of the kick test
KickStopTest(test) ==
    [BaseStopTest(test) EXCEPT !.ballTracker = stopTracking(@)]

\* finalizeMeasurement of the kick test past its early return
KickMeasured(test, flightTime) ==
    KickStopTest(
        [test EXCEPT !.results =
            Some([ballSpeed |-> RDiv(R(KickDistance), flightTime),
                  ballSpeedKmh |-> RMul(RDiv(R(KickDistance), flightTime), <<18, 5>>),
                  flightTime |-> flightTime,
                  startLineTime |-> Val(test.startLineTime),
                  endLineTime |-> Val(test.endLineTime),
                  ballTrajectory |-> test.ballTracker.ballHistory])])

\* finalizeMeasurement of the kick test: done tells whether it got past its
\* early return, and so stopped the test and called onTestComplete
KickFinalizeMeasurement(test) ==
    IF ~HasTime(test.startLineTime) \/ ~HasTime(test.endLineTime)
    THEN [test |-> test, done |-> FALSE]
    ELSE [test |-> [KickMeasured(test,
                                 RDiv(RSub(Val(test.endLineTime), Val(test.startLineTime)),
                                      R(1000)))
                       EXCEPT !.ballTracker = stopTracking(@)],
          done |-> TRUE]

\* the result of a processFrame of the kick test that tested no line
KickNoLine(test) ==
    [test |-> test, testedStart |-> FALSE, testedEnd |-> FALSE,
     recordedStart |-> FALSE, recordedEnd |-> FALSE, finalized |-> FALSE]

\* processFrame of the kick test, its 0 m block past detectVerticalLineCrossing
KickStartCrossing(test, crossing) ==
    IF ~IsNull(crossing) /\ Val(crossing).crossed
    THEN [KickNoLine([test EXCEPT !.startLineTime = Some(Val(crossing).time)])
             EXCEPT !.testedStart = TRUE, !.recordedStart = TRUE]
    ELSE [KickNoLine(test) EXCEPT !.testedStart = TRUE]

\* processFrame of the kick test, its 0 m block
KickStartLine(test, prevData, position, timestamp, startLine) ==
    IF HasTime(test.startLineTime) \/ IsNull(startLine) THEN KickNoLine(test)
    ELSE KickStartCrossing(
             test,
             detectVerticalLineCrossing(Some(prevData.position), Some(position),
                                        Val(startLine).x, prevData.timestamp, timestamp))

\* processFrame of the kick test, its 10 m block past finalizeMeasurement;
\* start is the result of the 0 m block
KickFinalized(start, final) ==
    [start EXCEPT !.test = final.test, !.testedEnd = TRUE, !.recordedEnd = TRUE,
                  !.finalized = final.done]

\* processFrame of the kick test, its 10 m block past detectVerticalLineCrossing
KickEndCrossing(start, crossing) ==
    IF ~IsNull(crossing) /\ Val(crossing).crossed
    THEN KickFinalized(start,
                       KickFinalizeMeasurement(
                           [start.test EXCEPT !.endLineTime = Some(Val(crossing).time)]))
    ELSE [start EXCEPT !.testedEnd = TRUE]

\* the 10 m block without its test that the 0 m crossing is recorded
KickEndLineWithoutStart(start, prevData, position, timestamp, endLine) ==
    IF HasTime(start.test.endLineTime) \/ IsNull(endLine)
    THEN start
    ELSE KickEndCrossing(
             start,
             detectVerticalLineCrossing(Some(prevData.position), Some(position),
                                        Val(endLine).x, prevData.timestamp, timestamp))

\* processFrame of the kick test, its 10 m block
KickEndLine(start, prevData, position, timestamp, endLine) ==
    IF \/ ~HasTime(start.test.startLineTime) \/ HasTime(start.test.endLineTime)
       \/ IsNull(endLine)
    THEN start
    ELSE KickEndCrossing(
             start,
             detectVerticalLineCrossing(Some(prevData.position), Some(position),
                                        Val(endLine).x, prevData.timestamp, timestamp))

\* processFrame of the kick test past trackPosition; tracked is the test with
\* the ball's position taken in
KickTracked(prevData, tracked, position, timestamp) ==
    IF IsNull(prevData) THEN KickNoLine(tracked)
    ELSE KickEndLine(KickStartLine(tracked, Val(prevData), position, timestamp,
                                   projectMToPx(tracked.linesCalibrator, R(0))),
                     Val(prevData), position, timestamp,
                     projectMToPx(tracked.linesCalibrator, R(KickDistance)))

\* processFrame of the kick test past detectBall
KickDetected(test, detection, timestamp) ==
    IF IsNull(detection.ball)
    THEN KickNoLine([test EXCEPT !.ballTracker = detection.tracker])
    ELSE KickTracked(test.eventDetector["ball"],
                     [test EXCEPT
                         !.ballTracker = detection.tracker,
                         !.ballDetected = TRUE,
                         !.eventDetector =
                             trackPosition(@, "ball", Val(detection.ball).position,
                                           timestamp)],
                     Val(detection.ball).position, timestamp)

\* processFrame of the kick test, given the candidate the ball tracker's
\* detection chose for the frame: the test afterwards, the lines whose
\* crossing the frame tested and recorded, and whether the frame finalized
KickProcessFrame(test, timestamp, bestCandidate) ==
    IF ~test.isRunning THEN KickNoLine(test)
    ELSE KickDetected(test, detectBall(test.ballTracker, bestCandidate, timestamp),
                      timestamp)

KickResetTest(test) ==
    [BaseResetTest(test) EXCEPT !.ballDetected = FALSE,
                                !.startLineTime = Null,
                                !.endLineTime = Null,
                                !.ballSpeed = Null,
                                !.ballTracker = clearHistory(@),
                                !.eventDetector = clearTracking(@, Null)]

(***************************************************************************)
(* The inputs of the model                                                 *)
(***************************************************************************)
\* the clock advances by one of these between two events
TickSteps == {1800, 2000}

\* the markers on the ground as the analysis canvas shows them: the line of
\* 0 m, the middle line and the far line
Markers == <<Pt(R(100), R(240)), Pt(R(340), R(240)), Pt(R(580), R(240))>>

\* a landmark of the pose engine, at pixel (px, py) of the image
Landmark(px, py, visibility) ==
    Some([x |-> Frac(px, ImageWidth), y |-> Frac(py, ImageHeight),
          visibility |-> Some(visibility)])
Visible == <<9, 10>>
Hidden == <<1, 10>>

\* the ankles of the jumper: on the ground left and right, and in the air
\* at two places
JumpPositions == {<<160, 384>>, <<240, 382>>, <<400, 382>>, <<480, 384>>}
JumpSnapshots ==
    {Some([left_ankle |-> Landmark(p[1], p[2], Visible),
           right_ankle |-> Landmark(p[1], p[2], Visible)]) : p \in JumpPositions}
    \cup {Null,
          Some([left_ankle |-> Landmark(160, 382, Hidden),
                right_ankle |-> Landmark(160, 382, Visible)]),
          Some([left_ankle |-> Landmark(160, 384, Visible)])}

\* a snapshot lacks a landmark when there is no snapshot, when it does not
\* hold the landmark, or when the landmark's visibility is below the threshold
LacksLandmarks(landmarks, names) ==
    \/ IsNull(landmarks)
    \/ \E n \in names :
          \/ n \notin DOMAIN Val(landmarks)
          \/ IsNull(Val(landmarks)[n])
          \/ IsNull(Val(Val(landmarks)[n]).visibility)
          \/ RLt(Val(Val(Val(landmarks)[n]).visibility), MinVisibility)

SprintXs == {100, 340, 580}
SprintSnapshots ==
    {Some([left_hip |-> Landmark(px, 240, Visible),
           right_hip |-> Landmark(px, 240, Visible)]) : px \in SprintXs}
    \cup {Null,
          Some([left_hip |-> Landmark(340, 240, Visible),
                right_hip |-> Landmark(340, 240, Hidden)]),
          Some([right_hip |-> Landmark(340, 240, Visible)])}

BallXs == {60, 340, 620}
BallCandidates ==
    {Some([position |-> Pt(R(px), R(240)), radius |-> R(10), confidence |-> <<4, 5>>]) :
        px \in BallXs}
    \cup {Null}

(***************************************************************************)
(* State                                                                   *)
(***************************************************************************)
VARIABLES
    now,              \* performance.now(), in ms
    active,           \* the test kind the behaviour exercises
    tests,            \* the three test controllers, by kind
    canvasListeners,  \* the click listeners of the analysis canvas, oldest first
    savedCalibrations,\* localStorage['athleticTestCalibrations']
    timers,           \* the pending setTimeout callbacks
    calibrations,     \* the startCalibration calls made so far
    app,              \* the fields of BodyMeasurementApp the frame loop uses
    camera,           \* the camera's frame loop
    poseDetector,     \* the PoseDetector and the requests the engine holds
    completeCount,    \* per kind: the onTestComplete calls of the current attempt
    lib,              \* the library objects exercised on their own
    history,          \* what the calls so far have done, for the properties
    last              \* the last call: what it was and what happened in it

vars == <<now, active, tests, canvasListeners, savedCalibrations, timers,
          calibrations, app, camera, poseDetector, completeCount, lib, history,
          last>>

\* takeoffTime: the timestamp of the frame that recorded the takeoff the jump
\* test holds; log: the calls made on a library object, oldest first
NoHistory == [takeoffTime |-> Null, log |-> << >>]

\* of a click: the point, per kind the points pushed and the
\* onCalibrationComplete calls, and whether console.warn was called; of a loadCalibration and of a projection: the
\* argument, the calibrator acted on and what was returned
NoCall == [op |-> "none", threw |-> FALSE, tested |-> {}, recorded |-> {},
           completed |-> FALSE, was |-> {}, lacking |-> FALSE,
           point |-> Null, pushed |-> [k \in TestKinds |-> 0],
           fired |-> [k \in TestKinds |-> 0], warned |-> FALSE,
           kind |-> Null, calibrator |-> Null, returned |-> Null, args |-> << >>]
Call(op) == [NoCall EXCEPT !.op = op]

\* BodyMeasurementApp after its constructor and initializeApp
NewApp == [userHeight |-> Null, currentMeasurements |-> Null,
           isFrameLoopRunning |-> FALSE]

\* the camera: the callback its frame loop delivers the frames to, if any
NewCamera == [frameLoop |-> FALSE]

\* the PoseDetector, initialized, and the images sent to the pose engine whose
\* results are still to come, oldest first
\* inFlightAtSwitch counts the requests that were in flight at the last
\* switch to another test tab and are not answered yet
NewPoseDetector == [currentImageData |-> FALSE, sent |-> << >>, inFlightAtSwitch |-> 0]

NewTests ==
    [k \in TestKinds |->
        CASE k = "broad-jump" -> NewBroadJumpTest
          [] k = "sprint" -> NewSprintTest
          [] OTHER -> NewKickTest]

\* an EventDetector, a SmoothingFilter, a SpeedSmoother and an
\* AccelerationCalculator as their constructors leave them, the filter and
\* the calculator with the window sizes given
NewLib(filterWindow, accelWindow) ==
    [eventDetector |-> [id \in ObjectIds |-> Null],
     filter |-> [windowSize |-> filterWindow, dataBuffer |-> << >>],
     speedSmoother |-> NewSpeedSmoother,
     accelerationCalculator |-> [windowSize |-> accelWindow, speedHistory |-> << >>]]

\* the application after construction, before its library objects are given
InitProgram ==
    /\ now = StartClock
    /\ active \in TestKinds
    /\ tests = NewTests
    /\ canvasListeners = << >>
    /\ savedCalibrations = Null
    /\ timers = {}
    /\ calibrations = 0
    /\ app = NewApp
    /\ camera = NewCamera
    /\ poseDetector = NewPoseDetector
    /\ completeCount = [k \in TestKinds |-> 0]
    /\ history = NoHistory
    /\ last = NoCall

Init == InitProgram /\ lib = NewLib(SpeedWindow, AccelWindow)

\* time passes between two events
Tick(d) ==
    /\ now + d <= MaxTime
    /\ now' = now + d
    /\ last' = NoCall
    /\ UNCHANGED <<lib, history, calibrations, active, tests, canvasListeners, savedCalibrations, timers,
                   completeCount,
                   app, camera, poseDetector>>

(***************************************************************************)
(* Calibration: startCalibration and the canvas click                      *)
(***************************************************************************)
\* the identity of a newly created closure or timer: one nothing refers to
ListenerIds ==
    {canvasListeners[i].id : i \in DOMAIN canvasListeners}
    \cup {Val(tests[k].linesCalibrator.clickHandler) :
            k \in {j \in TestKinds : ~IsNull(tests[j].linesCalibrator.clickHandler)}}
FreshId(used) == CHOOSE i \in 1..(Cardinality(used) + 1) : i \notin used

\* LinesCalibrator.startCalibration(testType, canvas), with setupClickHandler
startCalibration(c, testType, handlerId) ==
    [c EXCEPT !.testType = Some(testType),
              !.calibrationPoints = << >>,
              !.meterValues = MeterValuesOf(testType),
              !.isCalibrating = TRUE,
              !.canvas = TRUE,
              !.clickHandler = Some(handlerId)]

\* canvas.removeEventListener('click', clickHandler)
removeEventListener(listeners, handler) ==
    IF IsNull(handler) THEN listeners
    ELSE SelectSeq(listeners, LAMBDA l : l.id # Val(handler))

\* startCalibration of a test: it installs the callback that sets the test's
\* isCalibrated and starts the calibrator on the analysis canvas
StartCalibrationWithin(k, sessions) ==
    /\ k = active
    /\ calibrations < sessions
    /\ calibrations' = calibrations + 1
    /\ LET id == FreshId(ListenerIds)
       IN  /\ tests' = [tests EXCEPT ![k].linesCalibrator = startCalibration(@, k, id)]
           /\ canvasListeners' = Append(canvasListeners, [owner |-> k, id |-> id])
    /\ last' = Call("startCalibration")
    /\ UNCHANGED <<lib, history, now, active, savedCalibrations, timers, completeCount,
                   app, camera, poseDetector>>

StartCalibration(k) == StartCalibrationWithin(k, MaxCalibrations)

\* completeCalibration() on the state st = [tests, listeners, saved, pushed,
\* fired, warned] of one click's dispatch; completed is the calibrator of test k afterwards
completeCalibration(st, k, completed) ==
    [tests |-> [st.tests EXCEPT ![k].linesCalibrator = completed,
                                ![k].isCalibrated = TRUE],
     listeners |-> IF completed.canvas
                   THEN removeEventListener(st.listeners, completed.clickHandler)
                   ELSE st.listeners,
     saved |-> saveCalibration(completed, st.saved),
     pushed |-> st.pushed,
     fired |-> [st.fired EXCEPT ![k] = @ + 1],
     warned |-> st.warned \/ warnsNotCollinear(completed)]

\* completeCalibration computing no parameters where it warns
completedCalibratorCollinearOnly(c) ==
    [c EXCEPT !.isCalibrating = FALSE,
              !.calibrationParams = IF warnsNotCollinear(c) THEN c.calibrationParams
                                    ELSE calculateCalibrationParams(c)]

\* the calibrator at the end of completeCalibration
completedCalibrator(c) ==
    [c EXCEPT !.isCalibrating = FALSE,
              !.calibrationParams = calculateCalibrationParams(c)]

\* addCalibrationPoint completing one point before the expected count
addCalibrationPointEarly(st, k, point) ==
    IF Len(st.tests[k].linesCalibrator.calibrationPoints) + 2
           >= Len(st.tests[k].linesCalibrator.meterValues)
    THEN completeCalibration(
             [st EXCEPT !.pushed[k] = @ + 1], k,
             completedCalibrator([st.tests[k].linesCalibrator EXCEPT
                                     !.calibrationPoints = Append(@, point)]))
    ELSE [st EXCEPT !.tests[k].linesCalibrator.calibrationPoints = Append(@, point),
                    !.pushed[k] = @ + 1]

\* addCalibrationPoint(x, y) with the completeCalibration it may end in
addCalibrationPoint(st, k, point) ==
    IF Len(st.tests[k].linesCalibrator.calibrationPoints) + 1
           >= Len(st.tests[k].linesCalibrator.meterValues)
    THEN completeCalibration(
             [st EXCEPT !.pushed[k] = @ + 1], k,
             completedCalibrator([st.tests[k].linesCalibrator EXCEPT
                                     !.calibrationPoints = Append(@, point)]))
    ELSE [st EXCEPT !.tests[k].linesCalibrator.calibrationPoints = Append(@, point),
                    !.pushed[k] = @ + 1]

\* the click handler of setupClickHandler, owned by the calibrator of test k
clickHandler(st, k, point) ==
    IF ~st.tests[k].linesCalibrator.isCalibrating THEN st
    ELSE addCalibrationPoint(st, k, point)

\* the dispatch of one click to the listeners attached when it happened, in
\* order; a listener removed during the dispatch is not called
RECURSIVE dispatchClick(_, _, _)
dispatchClick(st, pending, point) ==
    IF pending = << >> THEN st
    ELSE LET l == Head(pending)
             attached == \E i \in DOMAIN st.listeners : st.listeners[i].id = l.id
         IN  dispatchClick(IF attached THEN clickHandler(st, l.owner, point) ELSE st,
                           Tail(pending), point)

\* the canvas points a calibration click may hit: the operator clicks the
\* markers in the order of their meter values
ClickPoints ==
    LET c == tests[active].linesCalibrator
        n == Len(c.calibrationPoints) + 1
    IN  IF n >= Len(c.meterValues) THEN {Markers[3]} ELSE {Markers[n]}

\* a click on the analysis canvas
Click(point) ==
    /\ canvasListeners # << >>
    /\ LET st == dispatchClick([tests |-> tests, listeners |-> canvasListeners,
                                saved |-> savedCalibrations,
                                pushed |-> NoCall.pushed, fired |-> NoCall.fired,
                                warned |-> FALSE],
                               canvasListeners, point)
       IN  /\ tests' = st.tests
           /\ canvasListeners' = st.listeners
           /\ savedCalibrations' = st.saved
           /\ last' = [Call("click") EXCEPT !.point = Some(point),
                                            !.pushed = st.pushed,
                                            !.fired = st.fired,
                                            !.warned = st.warned]
    /\ UNCHANGED <<lib, history, calibrations, now, active, timers, completeCount,
                   app, camera, poseDetector>>

\* BodyMeasurementApp.stopFrameLoop()
stopFrameLoop(a) == [a EXCEPT !.isFrameLoopRunning = FALSE]

\* camera.stopFrameLoop(): the camera stops delivering frames
cameraStopFrameLoop(cam) == [cam EXCEPT !.frameLoop = FALSE]

\* the canvas points a click may hit when the operator clicks anywhere: the
\* three markers and a point off their line
CalPoints == {Markers[i] : i \in 1..3} \cup {Pt(R(340), R(60))}

\* the points the clicks of repeated calibrations hit: the two outer markers
SessionPoints == {Markers[1], Markers[3]}

\* cancelCalibration() of the calibrator of the current test
CancelCalibration ==
    /\ tests' = [tests EXCEPT ![active].linesCalibrator = cancelCalibration(@)]
    /\ canvasListeners' =
          IF tests[active].linesCalibrator.canvas
          THEN removeEventListener(canvasListeners,
                                   tests[active].linesCalibrator.clickHandler)
          ELSE canvasListeners
    /\ last' = Call("cancelCalibration")
    /\ UNCHANGED <<lib, history, calibrations, now, active, savedCalibrations, timers,
                   completeCount, app, camera, poseDetector>>

\* clearCalibration(testType) of the calibrator of the current test
ClearCalibration(testType) ==
    /\ tests' = [tests EXCEPT ![active].linesCalibrator =
                     clearCalibration(@, testType, savedCalibrations).calibrator]
    /\ savedCalibrations' =
          clearCalibration(tests[active].linesCalibrator, testType,
                           savedCalibrations).saved
    /\ last' = [Call("clearCalibration") EXCEPT !.kind = Some(testType)]
    /\ UNCHANGED <<lib, history, calibrations, now, active, canvasListeners, timers,
                   completeCount, app, camera, poseDetector>>

\* switchTestTab(testType)
SwitchTestTab(testType) ==
    /\ active' = testType
    /\ app' = IF app.isFrameLoopRunning THEN stopFrameLoop(app) ELSE app
    /\ camera' = IF app.isFrameLoopRunning THEN cameraStopFrameLoop(camera) ELSE camera
    /\ poseDetector' = [poseDetector EXCEPT
                            !.inFlightAtSwitch = IF testType # active
                                                 THEN Len(poseDetector.sent) ELSE @]
    /\ last' = Call("switchTestTab")
    /\ UNCHANGED <<lib, history, calibrations, now, tests, canvasListeners,
                   savedCalibrations, timers, completeCount>>

\* new LinesCalibrator().loadCalibration(testType)
LoadCalibration(testType) ==
    /\ last' = [Call("loadCalibration") EXCEPT
                   !.kind = Some(testType),
                   !.calibrator = Some(loadCalibration(NewLinesCalibrator, testType,
                                                       savedCalibrations).calibrator),
                   !.returned = Some(loadCalibration(NewLinesCalibrator, testType,
                                                     savedCalibrations).returned)]
    /\ UNCHANGED <<lib, history, calibrations, now, active, tests, canvasListeners,
                   savedCalibrations, timers, completeCount, app, camera,
                   poseDetector>>

\* points of the line through the first and the last calibration point
LineFractions == {<<-1, 4>>, <<1, 2>>, <<3, 2>>}
LinePoints(c) ==
    IF Len(c.calibrationPoints) < 2 THEN {}
    ELSE {Pt(RAdd(c.calibrationPoints[1].x,
                  RMul(t, RSub(c.calibrationPoints[Len(c.calibrationPoints)].x,
                               c.calibrationPoints[1].x))),
             RAdd(c.calibrationPoints[1].y,
                  RMul(t, RSub(c.calibrationPoints[Len(c.calibrationPoints)].y,
                               c.calibrationPoints[1].y)))) : t \in LineFractions}

\* the meter values a caller may ask the pixel of
MeterInputs == {R(-5), R(0), <<7, 2>>, R(10), R(30)}

\* projectPxToM(point) of the calibrator of the current test
ProjectPxToM(point) ==
    /\ last' = [Call("projectPxToM") EXCEPT
                   !.point = Some(point),
                   !.returned = projectPxToM(tests[active].linesCalibrator, point)]
    /\ UNCHANGED <<lib, history, calibrations, now, active, tests, canvasListeners,
                   savedCalibrations, timers, completeCount, app, camera,
                   poseDetector>>

\* projectMToPx(meters) of the calibrator of the current test
ProjectMToPx(meters) ==
    /\ last' = [Call("projectMToPx") EXCEPT
                   !.point = Some(meters),
                   !.returned = projectMToPx(tests[active].linesCalibrator, meters)]
    /\ UNCHANGED <<lib, history, calibrations, now, active, tests, canvasListeners,
                   savedCalibrations, timers, completeCount, app, camera,
                   poseDetector>>

(***************************************************************************)
(* The library objects driven on their own                                 *)
(***************************************************************************)
\* the ids and the samples of the trackPosition calls
CallIds == {"jumper", "ball", ""}
TrackSamples == {[position |-> Pt(R(5), R(0)), timestamp |-> R(0)],
                 [position |-> Pt(R(15), R(10)), timestamp |-> R(40)]}

\* eventDetector.trackPosition(objectId, position, timestamp)
TrackPosition(objectId, sample) ==
    /\ Len(history.log) < MaxLog
    /\ lib' = [lib EXCEPT !.eventDetector =
                   trackPosition(@, objectId, sample.position, sample.timestamp)]
    /\ last' = [Call("trackPosition") EXCEPT
                   !.args = <<objectId, sample.position, sample.timestamp>>,
                   !.returned = lib.eventDetector[objectId]]
    /\ history' = [history EXCEPT
                      !.log = Append(@, [op |-> "trackPosition", id |-> Some(objectId),
                                         sample |-> Some(sample)])]
    /\ UNCHANGED <<calibrations, now, active, tests, canvasListeners,
                   savedCalibrations, timers, completeCount, app, camera,
                   poseDetector>>

\* eventDetector.clearTracking(objectId), or clearTracking() where objectId
\* is null
ClearTracking(objectId) ==
    /\ Len(history.log) < MaxLog
    /\ lib' = [lib EXCEPT !.eventDetector = clearTracking(@, objectId)]
    /\ last' = [Call("clearTracking") EXCEPT !.args = <<objectId>>]
    /\ history' = [history EXCEPT
                      !.log = Append(@, [op |-> "clearTracking", id |-> objectId,
                                         sample |-> Null])]
    /\ UNCHANGED <<calibrations, now, active, tests, canvasListeners,
                   savedCalibrations, timers, completeCount, app, camera,
                   poseDetector>>

\* filter.addValue(value) of a SmoothingFilter
FilterValues == {R(1), R(2), R(3), R(4)}
FilterAddValue(value) ==
    /\ Len(history.log) < MaxLog
    /\ lib' = [lib EXCEPT !.filter.dataBuffer = addValue(@, lib.filter.windowSize, value)]
    /\ last' = [Call("addValue") EXCEPT
                   !.args = <<value>>,
                   !.returned = Some(getSmoothedValue(lib'.filter.dataBuffer))]
    /\ history' = [history EXCEPT
                      !.log = Append(@, [op |-> "addValue", id |-> Null,
                                         sample |-> Some(value)])]
    /\ UNCHANGED <<calibrations, now, active, tests, canvasListeners,
                   savedCalibrations, timers, completeCount, app, camera,
                   poseDetector>>

\* filter.reset()
FilterReset ==
    /\ Len(history.log) < MaxLog
    /\ lib' = [lib EXCEPT !.filter.dataBuffer = << >>]
    /\ last' = Call("reset")
    /\ history' = [history EXCEPT
                      !.log = Append(@, [op |-> "reset", id |-> Null, sample |-> Null])]
    /\ UNCHANGED <<calibrations, now, active, tests, canvasListeners,
                   savedCalibrations, timers, completeCount, app, camera,
                   poseDetector>>

\* speedSmoother.addPosition(position, timestamp) of a SpeedSmoother
SmootherSamples ==
    {[position |-> Pt(R(x), R(0)), timestamp |-> R(t)] : x \in {0, 6}, t \in {0, 10, 20}}
SmootherAddPosition(sample) ==
    /\ Len(history.log) < MaxLog
    /\ lib' = [lib EXCEPT !.speedSmoother = addPosition(@, sample.position, sample.timestamp)]
    /\ last' = [Call("addPosition") EXCEPT
                   !.args = <<sample.position, sample.timestamp>>,
                   !.returned = Some(getSmoothedValue(lib'.speedSmoother.speedFilter))]
    /\ history' = [history EXCEPT
                      !.log = Append(@, [op |-> "addPosition", id |-> Null,
                                         sample |-> Some(sample)])]
    /\ UNCHANGED <<calibrations, now, active, tests, canvasListeners,
                   savedCalibrations, timers, completeCount, app, camera,
                   poseDetector>>

\* accelerationCalculator.addSpeed(speed, timestamp) of an
\* AccelerationCalculator
SpeedSamples == {[speed |-> R(v), timestamp |-> R(t)] : v \in {2, 5}, t \in {0, 1000}}
AccelAddSpeed(sample) ==
    /\ Len(history.log) < MaxLog
    /\ lib' = [lib EXCEPT !.accelerationCalculator.speedHistory =
                   addSpeed(lib.accelerationCalculator.windowSize, @,
                            sample.speed, sample.timestamp)]
    /\ last' = [Call("addSpeed") EXCEPT
                   !.args = <<sample.speed, sample.timestamp>>,
                   !.returned =
                       Some(calculateAcceleration(lib.accelerationCalculator.windowSize,
                                                  lib'.accelerationCalculator.speedHistory))]
    /\ history' = [history EXCEPT
                      !.log = Append(@, [op |-> "addSpeed", id |-> Null,
                                         sample |-> Some(sample)])]
    /\ UNCHANGED <<calibrations, now, active, tests, canvasListeners,
                   savedCalibrations, timers, completeCount, app, camera,
                   poseDetector>>

\* the arguments of the detections: positions or none, and two times
DetectPositions ==
    {Null} \cup {Some(Pt(R(x), R(y))) : x \in {5, 8, 10, 15}, y \in {0, 10}}
DetectLineXs == {R(10), R(12)}
DetectLines ==
    {Null,
     Some([p1 |-> Pt(R(10), R(0)), p2 |-> Pt(R(10), R(10))]),
     Some([p1 |-> Pt(R(10), R(0)), p2 |-> Pt(R(10), R(4))]),
     Some([p1 |-> Pt(R(5), R(0)), p2 |-> Pt(R(15), R(10))]),
     Some([p1 |-> Pt(R(0), R(5)), p2 |-> Pt(R(20), R(5))])}
DetectTimes == [prev |-> R(0), curr |-> R(40)]
GroundLevel == RMul(R(ImageHeight), GroundFraction)
DetectHeights ==
    {Null} \cup {Some(Pt(R(320), R(y))) : y \in {380, 383, 384, 385, 390}}

\* a call of a method that only returns: it changes no object
Returns(op, args, returned) ==
    /\ last' = [Call(op) EXCEPT !.args = args, !.returned = returned]
    /\ UNCHANGED <<lib, history, calibrations, now, active, tests, canvasListeners,
                   savedCalibrations, timers, completeCount, app, camera,
                   poseDetector>>

(***************************************************************************)
(* MeasurementCalculator.validateMeasurements                              *)
(***************************************************************************)
SegmentNames == {"upperArm", "forearm", "thigh", "shin"}

\* standardProportions[segmentName + 'ToHeight']
standardProportions ==
    [name \in SegmentNames |->
        CASE name = "upperArm" -> <<186, 1000>>
          [] name = "forearm" -> <<146, 1000>>
          [] name = "thigh" -> <<245, 1000>>
          [] OTHER -> <<246, 1000>>]

\* validateMeasurements, the body of its loop for one segment of a standard
\* proportion: measurement is optional, the result is the validated value
validateSegment(measurement, expectedLength) ==
    IF IsNull(measurement) \/ ~Truthy(Val(measurement)) THEN measurement
    ELSE IF RLt(RDiv(Val(measurement), expectedLength), <<7, 10>>)
            \/ RGt(RDiv(Val(measurement), expectedLength), <<13, 10>>)
    THEN IF RLt(RDiv(Val(measurement), expectedLength), <<1, 2>>)
         THEN Some(RMul(expectedLength, <<7, 10>>))
         ELSE IF RGt(RDiv(Val(measurement), expectedLength), R(2))
         THEN Some(RMul(expectedLength, <<13, 10>>))
         ELSE measurement
    ELSE measurement

validateMeasurements(segments, userHeight) ==
    [name \in DOMAIN segments |->
        validateSegment(segments[name], RMul(R(userHeight), standardProportions[name]))]

\* the segments given to validateMeasurements: each none or a length in cm,
\* or all of them the same multiple of the length expected for the height
UserHeights == {170}
MeasureRatios == {<<2, 5>>, <<3, 5>>, R(1), <<3, 2>>, <<21, 10>>}
SegmentInputs ==
    [SegmentNames ->
        {Null} \cup {Some(R(17 * k)) : k \in {1, 2, 3}}]
    \cup
    {[name \in SegmentNames |->
         Some(RMul(ratio, RMul(R(userHeight), standardProportions[name])))] :
       ratio \in MeasureRatios, userHeight \in UserHeights}

ValidateMeasurements(segments, userHeight) ==
    Returns("validateMeasurements", <<segments, userHeight>>,
            Some(validateMeasurements(segments, userHeight)))

DetectVerticalLineCrossing(prevPos, currPos, lineX) ==
    Returns("detectVerticalLineCrossing", <<prevPos, currPos, lineX>>,
            detectVerticalLineCrossing(prevPos, currPos, lineX, DetectTimes.prev, DetectTimes.curr))

DetectLineCrossing(prevPos, currPos, line) ==
    Returns("detectLineCrossing", <<prevPos, currPos, line>>,
            detectLineCrossing(prevPos, currPos, line, DetectTimes.prev, DetectTimes.curr))

DetectLanding(prevPos, currPos) ==
    Returns("detectLanding", <<prevPos, currPos>>,
            Some(detectLanding(prevPos, currPos, GroundLevel, R(MinVerticalSpeed))))

DetectTakeoff(prevPos, currPos) ==
    Returns("detectTakeoff", <<prevPos, currPos>>,
            Some(detectTakeoff(prevPos, currPos, GroundLevel, R(MinVerticalSpeed))))

(***************************************************************************)
(* The operations of the test controllers                                  *)
(***************************************************************************)
\* startTest(): BaseAthleticTest.startTest, which KickTest extends
startTest(test, t) ==
    IF test.testType = "kick" THEN KickStartTest(test, t) ELSE BaseStartTest(test, t)

StartTestResult(started, k) ==
    /\ tests' = [tests EXCEPT ![k] = started.test]
    /\ completeCount' = IF started.threw THEN completeCount
                        ELSE [completeCount EXCEPT ![k] = 0]
    /\ last' = [Call("startTest") EXCEPT !.threw = started.threw]

StartTest(k) ==
    /\ k = active
    /\ StartTestResult(startTest(tests[k], now), k)
    /\ UNCHANGED <<lib, history, calibrations, now, active, canvasListeners, savedCalibrations, timers,
                   app, camera, poseDetector>>

\* stopTest(): BaseAthleticTest.stopTest, which KickTest overrides
stopTest(test) ==
    IF test.testType = "kick" THEN KickStopTest(test) ELSE BaseStopTest(test)

StopTest(k) ==
    /\ k = active
    /\ tests' = [tests EXCEPT ![k] = stopTest(@)]
    /\ last' = NoCall
    /\ UNCHANGED <<lib, history, calibrations, now, active, canvasListeners, savedCalibrations, timers,
                   completeCount,
                   app, camera, poseDetector>>

\* resetTest() of the three controllers
resetTest(test) ==
    CASE test.testType = "broad-jump" -> BroadJumpResetTest(test)
      [] test.testType = "sprint" -> SprintResetTest(test)
      [] OTHER -> KickResetTest(test)

\* clearTimeout(handle)
\* a clearTimeout that clears nothing
clearTimeoutNothing(pending, handle) == pending

clearTimeout(pending, handle) ==
    IF IsNull(handle) THEN pending ELSE {tm \in pending : tm.id # Val(handle)}

\* the state a test is in, as a call finds it
StateOf(test, pending) ==
    {w \in {"calibrating", "calibrated", "running", "finalized", "timer"} :
        \/ w = "calibrating" /\ test.linesCalibrator.isCalibrating
        \/ w = "calibrated" /\ test.isCalibrated
        \/ w = "running" /\ test.isRunning
        \/ w = "finalized" /\ ~IsNull(test.results)
        \/ w = "timer" /\ test.testType = "broad-jump"
                       /\ clearTimeout(pending, test.finalizationTimer) # pending}

ResetTest(k) ==
    /\ k = active
    /\ tests' = [tests EXCEPT ![k] = resetTest(@)]
    /\ timers' = IF k = "broad-jump" THEN clearTimeout(timers, tests[k].finalizationTimer)
                 ELSE timers
    /\ completeCount' = [completeCount EXCEPT ![k] = 0]
    /\ last' = [Call("resetTest") EXCEPT !.was = StateOf(tests[k], timers)]
    /\ UNCHANGED lib
    /\ history' = IF k = "broad-jump" THEN [history EXCEPT !.takeoffTime = Null]
                   ELSE history
    /\ UNCHANGED <<calibrations, now, active, canvasListeners, savedCalibrations,
                   app, camera, poseDetector>>

\* onTestComplete as initializeAthleticTests sets it: handleTestComplete,
\* which stops the frame loop
handleTestComplete(completed) ==
    /\ app' = IF completed THEN stopFrameLoop(app) ELSE app
    /\ camera' = IF completed THEN cameraStopFrameLoop(camera) ELSE camera

\* the identity setTimeout returns: one no pending timer and no handle has
TimerIds ==
    {tm.id : tm \in timers}
    \cup (IF IsNull(tests["broad-jump"].finalizationTimer) THEN {}
          ELSE {Val(tests["broad-jump"].finalizationTimer)})

\* what a processFrame of the jump test leaves: r is its result, id the
\* identity of the timer it may have set
JumpFrameResult(r, id, lacking) ==
    /\ tests' = [tests EXCEPT !["broad-jump"] = r.test]
    /\ timers' = IF r.setTimer
                 THEN timers \cup {[id |-> id, due |-> now + SettleDelay,
                                    scale |-> FallbackScale]}
                 ELSE timers
    /\ last' = [Call("processFrame") EXCEPT !.lacking = lacking]
    /\ UNCHANGED lib
    /\ history' = IF IsNull(tests["broad-jump"].takeoffPosition)
                      /\ ~IsNull(r.test.takeoffPosition)
                   THEN [history EXCEPT !.takeoffTime = Some(R(now))]
                   ELSE history
    /\ UNCHANGED <<now, active, canvasListeners, savedCalibrations, calibrations,
                   completeCount, app, camera>>

\* processFrame of the jump test on a frame's landmarks
JumpFrameEffect(landmarks) ==
    JumpFrameResult(BroadJumpProcessFrame(tests["broad-jump"], landmarks, R(now),
                                          FallbackScale, FreshId(TimerIds)),
                    FreshId(TimerIds),
                    LacksLandmarks(landmarks, {"left_ankle", "right_ankle"}))

\* a frame's landmarks reach processFrame of the jump test
JumpFrame(landmarks) ==
    /\ active = "broad-jump"
    /\ JumpFrameEffect(landmarks)
    /\ UNCHANGED poseDetector

\* what finalizeMeasurement of the jump test leaves: r is its result
JumpFinalizeResult(r) ==
    /\ tests' = [tests EXCEPT !["broad-jump"] = r.test]
    /\ completeCount' = [completeCount EXCEPT
                            !["broad-jump"] = IF r.done THEN @ + 1 ELSE @]
    /\ last' = [Call("timer") EXCEPT !.completed = r.done]
    /\ handleTestComplete(r.done)

\* the settle timer firing without waiting for the delay to pass
JumpTimerFireAtOnce(tm) ==
    /\ tm \in timers
    /\ timers' = timers \ {tm}
    /\ JumpFinalizeResult(BroadJumpFinalizeMeasurement(tests["broad-jump"], tm.scale))
    /\ UNCHANGED <<lib, history, now, active, canvasListeners, savedCalibrations, calibrations,
                   poseDetector>>

\* the settle timer of the jump test fires: finalizeMeasurement(scale)
JumpTimerFire(tm) ==
    /\ tm \in timers
    /\ now >= tm.due
    /\ timers' = timers \ {tm}
    /\ JumpFinalizeResult(BroadJumpFinalizeMeasurement(tests["broad-jump"], tm.scale))
    /\ UNCHANGED <<lib, history, now, active, canvasListeners, savedCalibrations, calibrations,
                   poseDetector>>

\* what a processFrame of the sprint test leaves: r is its result
SprintFrameResult(r, lacking) ==
    /\ tests' = [tests EXCEPT !["sprint"] = r.test]
    /\ completeCount' = [completeCount EXCEPT
                            !["sprint"] = IF r.finalized THEN @ + 1 ELSE @]
    /\ last' = [Call("processFrame") EXCEPT
                   !.recorded = IF IsNull(r.recorded) THEN {} ELSE {Val(r.recorded)},
                   !.completed = r.finalized,
                   !.lacking = lacking]
    /\ handleTestComplete(r.finalized)
    /\ UNCHANGED <<lib, history, now, active, canvasListeners, savedCalibrations, calibrations,
                   timers>>

\* processFrame of the sprint test on a frame's landmarks, while the speed
\* history holds fewer than frames entries
SprintFrameUpTo(landmarks, frames) ==
    /\ Len(tests["sprint"].speedSmoother.speedHistory) < frames
    /\ SprintFrameResult(SprintProcessFrame(tests["sprint"], landmarks, R(now),
                                            FallbackScale),
                         LacksLandmarks(landmarks, {"left_hip", "right_hip"}))

SprintFrameEffect(landmarks) == SprintFrameUpTo(landmarks, MaxFrames)

\* a frame's landmarks reach processFrame of the sprint test
SprintFrame(landmarks) ==
    /\ active = "sprint"
    /\ SprintFrameEffect(landmarks)
    /\ UNCHANGED poseDetector

\* what a processFrame of the kick test leaves: r is its result
KickFrameResult(r) ==
    /\ tests' = [tests EXCEPT !["kick"] = r.test]
    /\ completeCount' = [completeCount EXCEPT
                            !["kick"] = IF r.finalized THEN @ + 1 ELSE @]
    /\ last' = [Call("processFrame") EXCEPT
                   !.tested = (IF r.testedStart THEN {0} ELSE {})
                              \cup (IF r.testedEnd THEN {KickDistance} ELSE {}),
                   !.recorded = (IF r.recordedStart THEN {0} ELSE {})
                                \cup (IF r.recordedEnd THEN {KickDistance} ELSE {}),
                   !.completed = r.finalized]
    /\ handleTestComplete(r.finalized)
    /\ UNCHANGED <<lib, history, now, active, canvasListeners, savedCalibrations, calibrations,
                   timers>>

\* processFrame of the kick test on a frame; bestCandidate is what the ball
\* detection chose in the frame's image
KickFrameEffect(bestCandidate) ==
    /\ Len(tests["kick"].ballTracker.ballHistory) < MaxBallFrames
    /\ KickFrameResult(KickProcessFrame(tests["kick"], R(now), bestCandidate))

\* a frame reaches processFrame of the kick test
KickFrame(bestCandidate) ==
    /\ active = "kick"
    /\ KickFrameEffect(bestCandidate)
    /\ UNCHANGED poseDetector

\* a frame reaches processFrame of the kick test, whose tracker looks for the
\* ball by itself
KickFrameTracked ==
    /\ active = "kick"
    /\ KickFrameResult(KickProcessFrame(tests["kick"], R(now),
                                        chosenCandidate(tests["kick"].ballTracker,
                                                        R(now))))
    /\ UNCHANGED poseDetector

(***************************************************************************)
(* The application: the frame loop and the pose requests                   *)
(***************************************************************************)
\* saveHeight() with a valid height, in cm
SaveHeight ==
    /\ IsNull(app.userHeight)
    /\ app' = [app EXCEPT !.userHeight = Some(170)]
    /\ last' = NoCall
    /\ UNCHANGED <<lib, history, now, active, tests, canvasListeners, savedCalibrations, timers,
                   calibrations, camera, poseDetector, completeCount>>

\* PoseDetector.detectFromCanvas(canvas): the canvas goes to the pose engine
detectFromCanvas(pd) == [pd EXCEPT !.sent = Append(@, "frame")]

\* PoseDetector.detectPose(capturedPhoto)
detectPose(pd) == [pd EXCEPT !.currentImageData = TRUE, !.sent = Append(@, "photo")]

\* startFrameLoop(): the flag, and the callback handed to the camera
startFrameLoop(a) == [a EXCEPT !.isFrameLoopRunning = TRUE]
cameraStartFrameLoop(cam) == [cam EXCEPT !.frameLoop = TRUE]

\* startAthleticTest() without its test of the user height
StartAthleticTestAnyHeight ==
    /\ IF ~tests[active].isCalibrated
       THEN /\ last' = [Call("startAthleticTest") EXCEPT !.threw = TRUE]
            /\ UNCHANGED <<tests, app, camera, completeCount>>
       ELSE /\ tests' = [tests EXCEPT ![active] = startTest(@, now).test]
            /\ app' = startFrameLoop(app)
            /\ camera' = cameraStartFrameLoop(camera)
            /\ completeCount' = [completeCount EXCEPT ![active] = 0]
            /\ last' = Call("startAthleticTest")
    /\ UNCHANGED <<lib, history, now, active, canvasListeners, savedCalibrations, timers,
                   calibrations, poseDetector>>

\* startAthleticTest(), the camera started
StartAthleticTest ==
    /\ IF ~tests[active].isCalibrated \/ IsNull(app.userHeight)
       THEN /\ last' = [Call("startAthleticTest") EXCEPT !.threw = TRUE]
            /\ UNCHANGED <<tests, app, camera, completeCount>>
       ELSE /\ tests' = [tests EXCEPT ![active] = startTest(@, now).test]
            /\ app' = startFrameLoop(app)
            /\ camera' = cameraStartFrameLoop(camera)
            /\ completeCount' = [completeCount EXCEPT ![active] = 0]
            /\ last' = Call("startAthleticTest")
    /\ UNCHANGED <<lib, history, now, active, canvasListeners, savedCalibrations, timers,
                   calibrations, poseDetector>>

\* resetAthleticTest()
ResetAthleticTest ==
    /\ tests' = [tests EXCEPT ![active] = resetTest(@)]
    /\ timers' = IF active = "broad-jump"
                 THEN clearTimeout(timers, tests[active].finalizationTimer)
                 ELSE timers
    /\ app' = stopFrameLoop(app)
    /\ camera' = cameraStopFrameLoop(camera)
    /\ completeCount' = [completeCount EXCEPT ![active] = 0]
    /\ last' = Call("resetAthleticTest")
    /\ UNCHANGED lib
    /\ history' = IF active = "broad-jump" THEN [history EXCEPT !.takeoffTime = Null]
                   ELSE history
    /\ UNCHANGED <<now, active, canvasListeners, savedCalibrations, calibrations,
                   poseDetector>>

\* the camera delivers a frame to the callback of startFrameLoop
CameraFrame ==
    /\ camera.frameLoop
    /\ Len(poseDetector.sent) < MaxSent
    /\ poseDetector' = IF ~app.isFrameLoopRunning \/ ~tests[active].isRunning
                       THEN poseDetector
                       ELSE detectFromCanvas(poseDetector)
    /\ last' = Call("cameraFrame")
    /\ UNCHANGED <<lib, history, now, active, tests, canvasListeners, savedCalibrations, timers,
                   calibrations, app, camera, completeCount>>

\* capturePhoto(), the camera ready
CapturePhoto ==
    /\ Len(poseDetector.sent) < MaxSent
    /\ poseDetector' = IF IsNull(app.userHeight) THEN poseDetector
                       ELSE detectPose(poseDetector)
    /\ last' = Call("capturePhoto")
    /\ UNCHANGED <<lib, history, now, active, tests, canvasListeners, savedCalibrations, timers,
                   calibrations, app, camera, completeCount>>

\* getScaleFromCurrentMeasurement() with no saved measurement in the storage:
\* Null, the fallback scale, or "TypeError" where it calls
\* MeasurementCalculator.getScaleFromMeasurement, which is not defined
getScaleFromCurrentMeasurement(a) ==
    IF ~IsNull(a.currentMeasurements) THEN "TypeError"
    ELSE IF ~IsNull(a.userHeight) THEN "fallback"
    ELSE "null"

\* the pose engine answers the oldest request: handlePoseResults(results) and
\* handlePoseDetectionResults(results, imageData)
PoseResults(landmarks, bestCandidate) ==
    /\ poseDetector.sent # << >>
    /\ poseDetector' = [poseDetector EXCEPT
                            !.sent = Tail(@),
                            !.inFlightAtSwitch = IF @ > 0 THEN @ - 1 ELSE 0]
    /\ IF ~poseDetector.currentImageData \/ IsNull(landmarks)
       THEN /\ last' = [Call("poseResults") EXCEPT !.args = <<landmarks>>]
            /\ UNCHANGED <<lib, history, now, active, tests, canvasListeners, savedCalibrations,
                           timers, calibrations, app, camera, completeCount>>
       ELSE IF app.isFrameLoopRunning /\ tests[active].isRunning
       THEN IF getScaleFromCurrentMeasurement(app) = "fallback"
            THEN CASE active = "broad-jump" -> JumpFrameEffect(landmarks)
                   [] active = "sprint" -> SprintFrameEffect(landmarks)
                   [] OTHER -> KickFrameEffect(bestCandidate)
            ELSE /\ last' = [Call("poseResults") EXCEPT !.args = <<landmarks>>]
                 /\ UNCHANGED <<lib, history, now, active, tests, canvasListeners,
                                savedCalibrations, timers, calibrations, app,
                                camera, completeCount>>
       ELSE /\ app' = [app EXCEPT !.currentMeasurements = Some("measurements")]
            /\ last' = [Call("poseResults") EXCEPT !.args = <<landmarks>>]
            /\ UNCHANGED <<lib, history, now, active, tests, canvasListeners, savedCalibrations,
                           timers, calibrations, camera, completeCount>>

\* what the pose engine may answer for the active test
PoseSnapshots ==
    CASE active = "broad-jump" -> JumpSnapshots
      [] active = "sprint" -> SprintSnapshots
      [] OTHER -> {Null, Some([nose |-> Landmark(340, 100, Visible)])}

NextApp ==
    \/ \E d \in TickSteps : Tick(d)
    \/ \E k \in TestKinds : StartCalibration(k)
    \/ \E point \in ClickPoints : Click(point)
    \/ SaveHeight
    \/ StartAthleticTest
    \/ ResetAthleticTest
    \/ CameraFrame
    \/ CapturePhoto
    \/ \E landmarks \in PoseSnapshots :
         \E bestCandidate \in (IF active = "kick" THEN BallCandidates ELSE {Null}) :
            PoseResults(landmarks, bestCandidate)
    \/ \E tm \in timers : JumpTimerFire(tm)

\* the application starts on the broad jump tab
InitApp == Init /\ active = "broad-jump"

\* the application with its test tabs, the tests started and never reset
NextSwitch ==
    \/ StartCalibration("broad-jump")
    \/ \E point \in SessionPoints : Click(point)
    \/ SaveHeight
    \/ StartAthleticTest
    \/ \E testType \in TestKinds : SwitchTestTab(testType)
    \/ CameraFrame
    \/ CapturePhoto
    \/ \E landmarks \in PoseSnapshots :
         \E bestCandidate \in (IF active = "kick" THEN BallCandidates ELSE {Null}) :
            PoseResults(landmarks, bestCandidate)

SpecSwitch == InitApp /\ [][NextSwitch]_vars

\* the application with its test tabs, the clock and the settle timer
NextTabs ==
    \/ StartCalibration("broad-jump")
    \/ \E point \in ClickPoints : Click(point)
    \/ SaveHeight
    \/ StartAthleticTest
    \/ \E testType \in TestKinds : SwitchTestTab(testType)
    \/ CameraFrame
    \/ CapturePhoto
    \/ \E landmarks \in PoseSnapshots :
         \E bestCandidate \in (IF active = "kick" THEN BallCandidates ELSE {Null}) :
            PoseResults(landmarks, bestCandidate)
    \/ Tick(MaxTime - StartClock)
    \/ \E tm \in timers : JumpTimerFire(tm)

SpecTabs == InitApp /\ [][NextTabs]_vars

\* the application, driven by its buttons, the camera and the pose engine
SpecApp == InitApp /\ [][NextApp]_vars

Next ==
    \/ \E d \in TickSteps : Tick(d)
    \/ \E k \in TestKinds : StartCalibration(k)
    \/ \E point \in ClickPoints : Click(point)
    \/ \E k \in TestKinds : StartTest(k)
    \/ \E k \in TestKinds : StopTest(k)
    \/ \E k \in TestKinds : ResetTest(k)
    \/ \E landmarks \in JumpSnapshots : JumpFrame(landmarks)
    \/ \E tm \in timers : JumpTimerFire(tm)
    \/ \E landmarks \in SprintSnapshots : SprintFrame(landmarks)
    \/ \E bestCandidate \in BallCandidates : KickFrame(bestCandidate)

\* the test controllers, driven call by call
Spec == Init /\ [][Next]_vars

\* one controller alone, driven call by call
InitJump == Init /\ active = "broad-jump"
NextJump ==
    \/ \E d \in TickSteps : Tick(d)
    \/ StartCalibration("broad-jump")
    \/ \E point \in ClickPoints : Click(point)
    \/ StartTest("broad-jump")
    \/ StopTest("broad-jump")
    \/ ResetTest("broad-jump")
    \/ \E landmarks \in JumpSnapshots : JumpFrame(landmarks)
    \/ \E tm \in timers : JumpTimerFire(tm)

SpecJump == InitJump /\ [][NextJump]_vars

InitSprint == Init /\ active = "sprint"
NextSprint ==
    \/ \E d \in TickSteps : Tick(d)
    \/ StartCalibration("sprint")
    \/ \E point \in ClickPoints : Click(point)
    \/ StartTest("sprint")
    \/ StopTest("sprint")
    \/ ResetTest("sprint")
    \/ \E landmarks \in SprintSnapshots : SprintFrame(landmarks)

SpecSprint == InitSprint /\ [][NextSprint]_vars

InitKick == Init /\ active = "kick"
NextKick ==
    \/ \E d \in TickSteps : Tick(d)
    \/ StartCalibration("kick")
    \/ \E point \in ClickPoints : Click(point)
    \/ StartTest("kick")
    \/ StopTest("kick")
    \/ ResetTest("kick")
    \/ \E bestCandidate \in BallCandidates : KickFrame(bestCandidate)

SpecKick == InitKick /\ [][NextKick]_vars

\* the three controllers, each with an attempt after the one that came to its
\* end: the sprint test sees one frame more
NextAgain ==
    \/ Tick(MaxTime - StartClock)
    \/ StartCalibration(active)
    \/ \E point \in ClickPoints : Click(point)
    \/ StartTest(active)
    \/ ResetTest(active)
    \/ \E landmarks \in JumpSnapshots : JumpFrame(landmarks)
    \/ \E tm \in timers : JumpTimerFire(tm)
    \/ \E landmarks \in SprintSnapshots :
          /\ active = "sprint"
          /\ SprintFrameUpTo(landmarks, MaxFrames + 1)
          /\ UNCHANGED poseDetector
    \/ \E bestCandidate \in BallCandidates : KickFrame(bestCandidate)

SpecAgain == Init /\ [][NextAgain]_vars

\* the kick test with the ball tracker of the repository
NextBall ==
    \/ \E d \in TickSteps : Tick(d)
    \/ StartCalibration("kick")
    \/ \E point \in SessionPoints : Click(point)
    \/ StartTest("kick")
    \/ StopTest("kick")
    \/ ResetTest("kick")
    \/ KickFrameTracked

SpecBall == InitKick /\ [][NextBall]_vars

\* the jump test with every call on its calibrator
NextClear ==
    \/ Tick(MaxTime - StartClock)
    \/ StartCalibrationWithin("broad-jump", MaxSessions)
    \/ \E point \in ClickPoints : Click(point)
    \/ CancelCalibration
    \/ \E testType \in TestKinds : ClearCalibration(testType)
    \/ StartTest("broad-jump")
    \/ ResetTest("broad-jump")
    \/ \E landmarks \in JumpSnapshots : JumpFrame(landmarks)
    \/ \E tm \in timers : JumpTimerFire(tm)

SpecClear == InitJump /\ [][NextClear]_vars

\* the sprint or the kick test, calibrated by clicks on either outer marker
InitLines == Init /\ active \in {"sprint", "kick"}
NextLines ==
    \/ Tick(MaxTime - StartClock)
    \/ StartCalibration(active)
    \/ \E point \in SessionPoints : Click(point)
    \/ StartTest(active)
    \/ \E landmarks \in SprintSnapshots : SprintFrame(landmarks)
    \/ \E bestCandidate \in BallCandidates : KickFrame(bestCandidate)

SpecLines == InitLines /\ [][NextLines]_vars

\* the calibration alone: the calibrate button, clicks anywhere on the canvas,
\* the tabs, and the calibrator's own cancelCalibration and loadCalibration
NextCal ==
    \/ StartCalibrationWithin(active, MaxSessions)
    \/ \E point \in SessionPoints : Click(point)
    \/ CancelCalibration
    \/ \E testType \in TestKinds : SwitchTestTab(testType)
    \/ \E testType \in TestKinds : LoadCalibration(testType)

SpecCal == Init /\ [][NextCal]_vars

\* one calibration by clicks anywhere, and the projections of its calibrator
NextProject ==
    \/ \E k \in TestKinds : StartCalibration(k)
    \/ \E point \in CalPoints : Click(point)
    \/ \E point \in CalPoints \cup LinePoints(tests[active].linesCalibrator) :
          ProjectPxToM(point)
    \/ \E meters \in MeterInputs : ProjectMToPx(meters)

SpecProject == Init /\ [][NextProject]_vars

\* an EventDetector alone, driven call by call
InitLib == Init /\ active = "broad-jump"
NextTracking ==
    \/ \E objectId \in CallIds, sample \in TrackSamples :
          TrackPosition(objectId, sample)
    \/ \E objectId \in {Null} \cup {Some(id) : id \in CallIds} :
          ClearTracking(objectId)

SpecTracking == InitLib /\ [][NextTracking]_vars

\* a SmoothingFilter alone, of any of the window sizes
FilterWindows == {1, 2, 3}
InitFilter ==
    /\ InitProgram /\ active = "broad-jump"
    /\ \E n \in FilterWindows : lib = NewLib(n, AccelWindow)
NextFilter ==
    \/ \E value \in FilterValues : FilterAddValue(value)
    \/ FilterReset

SpecFilter == InitFilter /\ [][NextFilter]_vars

\* a SpeedSmoother alone
NextSmoother == \E sample \in SmootherSamples : SmootherAddPosition(sample)

SpecSmoother == InitLib /\ [][NextSmoother]_vars

\* an AccelerationCalculator alone, of any of the window sizes
AccelWindows == {1, 2, 3}
InitAccel ==
    /\ InitProgram /\ active = "broad-jump"
    /\ \E n \in AccelWindows : lib = NewLib(SpeedWindow, n)
NextAccel == \E sample \in SpeedSamples : AccelAddSpeed(sample)

SpecAccel == InitAccel /\ [][NextAccel]_vars

\* a MeasurementCalculator validating segments, call by call
NextValidate ==
    \E segments \in SegmentInputs, userHeight \in UserHeights :
       ValidateMeasurements(segments, userHeight)

SpecValidate == InitLib /\ [][NextValidate]_vars

\* the detections of an EventDetector, call by call
NextDetect ==
    \/ \E prevPos \in DetectPositions, currPos \in DetectPositions,
          lineX \in DetectLineXs :
          DetectVerticalLineCrossing(prevPos, currPos, lineX)
    \/ \E prevPos \in DetectPositions, currPos \in DetectPositions,
          line \in DetectLines :
          DetectLineCrossing(prevPos, currPos, line)
    \/ \E prevPos \in DetectHeights, currPos \in DetectHeights :
          DetectLanding(prevPos, currPos)
    \/ \E prevPos \in DetectHeights, currPos \in DetectHeights :
          DetectTakeoff(prevPos, currPos)

SpecDetect == InitLib /\ [][NextDetect]_vars

(***************************************************************************)
(* The properties                                                          *)
(***************************************************************************)
Jump == tests["broad-jump"]
Sprint == tests["sprint"]
Kick == tests["kick"]

\* C1: in every attempt, which runs from a successful startTest to the next
\* resetTest or startTest, onTestComplete is delivered at most once, and the
\* call that finalizes the attempt is the one that delivers it: it leaves the
\* result set and the test stopped.
C1_CompleteOncePerAttempt ==
    /\ \A k \in TestKinds : completeCount[k] <= 1
    /\ last.completed => /\ completeCount[active] = 1
                         /\ ~IsNull(tests[active].results)
                         /\ ~tests[active].isRunning

\* C1: a frame reaches processFrame after the attempt was completed, and
\* completes nothing
C1_FrameAfterCompletion ==
    /\ completeCount[active] = 1
    /\ last.op = "processFrame"
    /\ ~last.completed

\* C2: a startTest on a test that is not calibrated throws and leaves every
\* field of every test as it was: isRunning, startTime, results, and the ball
\* tracker of the kick test.
C2_UncalibratedStartTestThrows ==
    [][(~tests[active].isCalibrated /\ last'.op = "startTest")
          => (last'.threw /\ tests' = tests)]_vars

\* C2: startTest has thrown on the uncalibrated kick test, whose tracker is
\* not tracking
C2_KickStartTestThrew ==
    /\ active = "kick"
    /\ last.op = "startTest"
    /\ last.threw
    /\ ~Kick.isCalibrated
    /\ ~Kick.isRunning
    /\ ~Kick.ballTracker.isTracking

\* the requests of the frame loop the pose engine has not answered yet
FrameRequestsInFlight ==
    {i \in DOMAIN poseDetector.sent : poseDetector.sent[i] = "frame"}

\* C3: at every moment at most one detectFromCanvas request of the frame loop
\* is in flight.
C3_AtMostOneInFlight == Cardinality(FrameRequestsInFlight) <= 1

\* C4: a resetTest of the jump test leaves no settle timer pending, so the
\* finalization of a landing before it never runs; and finalizeMeasurement
\* runs, and onTestComplete is delivered, only by the firing of the timer
\* that the landing the test holds has set.
C4_ResetCancelsFinalization ==
    [][/\ last'.op = "resetTest" => timers' = {}
       /\ (last'.op = "timer" \/ completeCount'["broad-jump"] > completeCount["broad-jump"])
             => /\ Jump.landingDetected
                /\ \E tm \in timers \ timers' : Jump.finalizationTimer = Some(tm.id)]_vars

\* C4: resetTest was called while the settle timer of a landing was pending
C4_ResetWithTimerPending ==
    /\ last.op = "resetTest"
    /\ "timer" \in last.was
    /\ timers = {}
    /\ IsNull(Jump.results)
    /\ completeCount["broad-jump"] = 0

\* the attempt state of a test as its constructor leaves it
AttemptCleared(test) ==
    /\ ~test.isRunning
    /\ IsNull(test.startTime)
    /\ IsNull(test.results)
    /\ test.eventDetector = NoTracking
    /\ CASE test.testType = "broad-jump" ->
              /\ ~test.landingDetected
              /\ IsNull(test.landingTime)
              /\ IsNull(test.takeoffPosition)
              /\ IsNull(test.landingPosition)
              /\ IsNull(test.finalizationTimer)
         [] test.testType = "sprint" ->
              /\ test.crossingTimes = NoCrossingTimes
              /\ test.nextCrossingIndex = 0
              /\ test.speedSmoother = NewSpeedSmoother
              /\ test.accelerationCalculator = << >>
         [] OTHER ->
              /\ ~test.ballDetected
              /\ IsNull(test.startLineTime)
              /\ IsNull(test.endLineTime)
              /\ IsNull(test.ballSpeed)
              /\ test.ballTracker.ballHistory = << >>
              /\ IsNull(test.ballTracker.lastDetectedBall)

\* C5: resetTest of any variant clears the attempt state (running flag, start
\* time, result, takeoff and landing data, crossing times and next-crossing
\* index, both filters, ball history, every tracked id) and leaves the
\* isCalibrated flag and the calibrator (points, meter values, projection
\* parameters) as they were.
C5_ResetClearsAttempt ==
    [][last'.op = "resetTest"
          => /\ AttemptCleared(tests'[active])
             /\ tests'[active].isCalibrated = tests[active].isCalibrated
             /\ tests'[active].linesCalibrator = tests[active].linesCalibrator]_vars

\* C5: resetTest was called on a calibrated test that held a result
C5_ResetAfterResult ==
    /\ last.op = "resetTest"
    /\ {"calibrated", "finalized"} \subseteq last.was
    /\ tests[active].isCalibrated
    /\ IsNull(tests[active].results)

\* C6, as stated: after resetTest, called in any state, the test is not
\* running, holds no result and is calibrated.
C6_ResetLeadsToCalibrated ==
    last.op = "resetTest"
       => /\ ~tests[active].isRunning
          /\ IsNull(tests[active].results)
          /\ tests[active].isCalibrated

\* C6, amended: after resetTest, called in any state, the test is not running
\* and holds no result, and it is calibrated exactly if it was before, a
\* calibration in progress staying in progress; startTest is accepted exactly
\* on a calibrated test.
C6_ResetKeepsCalibration ==
    [][/\ last'.op = "resetTest"
          => /\ ~tests'[active].isRunning
             /\ IsNull(tests'[active].results)
             /\ tests'[active].isCalibrated = tests[active].isCalibrated
             /\ tests'[active].linesCalibrator.isCalibrating
                   = tests[active].linesCalibrator.isCalibrating
       /\ last'.op = "startTest" => (last'.threw <=> ~tests[active].isCalibrated)]_vars

\* C6: resetTest was called during a calibration, on a test never calibrated
C6_ResetWhileCalibrating ==
    /\ last.op = "resetTest"
    /\ "calibrating" \in last.was
    /\ "calibrated" \notin last.was
    /\ ~tests[active].isCalibrated
    /\ tests[active].linesCalibrator.isCalibrating

CrossingFields == <<"t0", "t15", "t30">>

\* the crossing times a sprint test holds
RecordedCrossings(crossingTimes) ==
    {i \in 1..3 : ~IsNull(crossingTimes[CrossingFields[i]])}

\* nextCrossingIndex counts the recorded times, which are the first ones
SprintCrossingsInOrder ==
    /\ Sprint.nextCrossingIndex \in 0..3
    /\ RecordedCrossings(Sprint.crossingTimes) = 1..Sprint.nextCrossingIndex

\* a step that changes the crossings of the sprint test is a resetTest or
\* records the time of the next expected line, and of no other
SprintCrossingStep ==
    (Sprint'.nextCrossingIndex # Sprint.nextCrossingIndex
        \/ Sprint'.crossingTimes # Sprint.crossingTimes)
       => \/ last'.op = "resetTest"
          \/ /\ Sprint'.nextCrossingIndex = Sprint.nextCrossingIndex + 1
             /\ last'.recorded = {Sprint.nextCrossingIndex}
             /\ \A i \in 1..3 :
                   i # Sprint'.nextCrossingIndex
                      => Sprint'.crossingTimes[CrossingFields[i]]
                            = Sprint.crossingTimes[CrossingFields[i]]

\* C7: the sprint test records the crossings in the order 0 m, 15 m, 30 m: a
\* frame records at most one crossing, that of the next expected line;
\* nextCrossingIndex is the number of recorded times and stays in 0..3; t15
\* is set only if t0 is, and t30 only if t15 is.
C7_SprintCrossingsInOrder == []SprintCrossingsInOrder /\ [][SprintCrossingStep]_vars

\* C7: a frame has recorded the crossing of the 15 m line
C7_SecondCrossingRecorded ==
    /\ last.op = "processFrame"
    /\ last.recorded = {1}
    /\ Sprint.nextCrossingIndex = 2
    /\ IsNull(Sprint.crossingTimes.t30)

\* a sprint result computed from the crossing times t0, t15, t30, in ms
SprintResultFrom(result, t0, t15, t30) ==
    /\ result.splits.s0to15 = RDiv(RSub(t15, t0), R(1000))
    /\ result.splits.s15to30 = RDiv(RSub(t30, t15), R(1000))
    /\ result.totalTime = RDiv(RSub(t30, t0), R(1000))
    /\ result.totalTime = RAdd(result.splits.s0to15, result.splits.s15to30)
    /\ result.avgSpeedTotal = RDiv(R(30), result.totalTime)

ExampleCrossingTimes == [t0 |-> Some(R(0)), t15 |-> Some(R(2000)), t30 |-> Some(R(3800))]

\* C8: the sprint test finalizes in the frame that records the crossing of
\* the last line, and its result is computed from the recorded crossing
\* times: the splits (t15 - t0)/1000 and (t30 - t15)/1000, the total time
\* (t30 - t0)/1000, which is their sum, and the speed 30 / total time; the
\* times 0, 2000, 3800 give 2, 9/5, 19/5 and 150/19.
C8_SprintResult ==
    /\ (active = "sprint" /\ last.op = "processFrame")
          => (2 \in last.recorded <=> last.completed)
    /\ ~IsNull(Sprint.results)
          => /\ Sprint.nextCrossingIndex = 3
             /\ Val(Sprint.results).crossingTimes = Sprint.crossingTimes
             /\ SprintResultFrom(Val(Sprint.results), Val(Sprint.crossingTimes.t0),
                                 Val(Sprint.crossingTimes.t15),
                                 Val(Sprint.crossingTimes.t30))
             /\ Sprint.crossingTimes = ExampleCrossingTimes
                   => /\ Val(Sprint.results).splits.s0to15 = <<2, 1>>
                      /\ Val(Sprint.results).splits.s15to30 = <<9, 5>>
                      /\ Val(Sprint.results).totalTime = <<19, 5>>
                      /\ Val(Sprint.results).avgSpeedTotal = <<150, 19>>

\* C8: the frame that crossed the 30 m line has finalized the sprint with the
\* times 0, 2000 and 3800
C8_ExampleFinalized ==
    /\ last.op = "processFrame"
    /\ last.completed
    /\ ~IsNull(Sprint.results)
    /\ Val(Sprint.results).crossingTimes = ExampleCrossingTimes

\* C9: the kick test holds an end-line time only if it holds a start-line
\* time; a frame tests the end line only when the start-line time is recorded;
\* and the test is finalized exactly by the frame that records the end-line
\* time.
C9_KickLinesInOrder ==
    /\ ~IsNull(Kick.endLineTime) => ~IsNull(Kick.startLineTime)
    /\ ~IsNull(Kick.results) => ~IsNull(Kick.endLineTime)
    /\ (active = "kick" /\ last.op = "processFrame")
          => /\ KickDistance \in last.tested => ~IsNull(Kick.startLineTime)
             /\ KickDistance \in last.recorded <=> last.completed

\* C9: a frame after the one that recorded the start line has recorded the
\* end line, and finalized
C9_EndLineRecorded ==
    /\ last.op = "processFrame"
    /\ last.recorded = {KickDistance}
    /\ last.completed
    /\ ~IsNull(Kick.results)

\* a landing is held only with a takeoff
LandingAfterTakeoff == Jump.landingDetected => ~IsNull(Jump.takeoffPosition)

\* a recorded takeoff and a recorded landing are changed by resetTest only,
\* and no step records both
JumpRecordStep ==
    /\ (~IsNull(Jump.takeoffPosition) /\ Jump'.takeoffPosition # Jump.takeoffPosition)
          => last'.op = "resetTest"
    /\ (/\ Jump.landingDetected
        /\ <<Jump'.landingDetected, Jump'.landingTime, Jump'.landingPosition>>
              # <<Jump.landingDetected, Jump.landingTime, Jump.landingPosition>>)
          => last'.op = "resetTest"
    /\ ~(IsNull(Jump.takeoffPosition) /\ ~IsNull(Jump'.takeoffPosition)
            /\ Jump'.landingDetected)

\* C10: in the jump test landingDetected implies that takeoffPosition is set;
\* a takeoff is recorded at most once and a landing at most once in an
\* attempt; no frame records a takeoff and a landing.
C10_LandingAfterTakeoff == []LandingAfterTakeoff /\ [][JumpRecordStep]_vars

\* C10: a frame has recorded the landing of a jump whose takeoff is recorded
C10_LandingRecorded ==
    /\ last.op = "processFrame"
    /\ Jump.isRunning
    /\ Jump.landingDetected
    /\ ~IsNull(Jump.takeoffPosition)
    /\ ~IsNull(Jump.landingPosition)

\* C11: the speed of a jump result is the distance of the result divided by
\* the flight time, the time from the frame that recorded the takeoff to the
\* frame that recorded the landing.
C11_SpeedOverFlightTime ==
    ~IsNull(Jump.results)
       => Val(Jump.results).takeoffSpeed
             = RDiv(Val(Jump.results).distance,
                    RDiv(RSub(Val(Jump.landingTime), Val(history.takeoffTime)),
                         R(1000)))

\* C12: a processFrame whose snapshot lacks a required landmark (the ankles
\* for the jump, the hips for the sprint, missing or below the visibility
\* threshold), or that reaches a test that is not running, changes no field
\* of any test (tracked positions, filters, speed history, takeoff and
\* landing data, crossings), sets no timer and completes nothing; the next
\* frame so meets the position of the last valid frame.
C12_LackingFrameSkipped ==
    [][(last'.op = "processFrame" /\ (last'.lacking \/ ~tests[active].isRunning))
          => /\ tests' = tests
             /\ timers' = timers
             /\ completeCount' = completeCount]_vars

\* C12: a frame lacking a landmark has reached a running test that holds the
\* position of an earlier frame
C12_LackingFrameWhileTracking ==
    /\ last.op = "processFrame"
    /\ last.lacking
    /\ tests[active].isRunning
    /\ \E id \in {"jumper", "runner"} : ~IsNull(tests[active].eventDetector[id])

\* C13: a processFrame of the jump test, the one that detects the landing
\* included, produces no result, leaves the test running and completes
\* nothing; a result appears only when the settle timer fires, no sooner
\* than the settle delay after the landing, and that step stops the test and
\* calls onTestComplete once; and at most one settle timer is pending.
C13_FinalizedBySettleTimer ==
    /\ [](Cardinality(timers) <= 1)
    /\ [][/\ last'.op = "processFrame"
             => /\ Jump'.results = Jump.results
                /\ Jump'.isRunning = Jump.isRunning
                /\ completeCount' = completeCount
          /\ (~Jump.landingDetected /\ Jump'.landingDetected)
             => /\ last'.op = "processFrame"
                /\ IsNull(Jump'.results)
                /\ Jump'.isRunning
                /\ Cardinality(timers') = 1
          /\ (Jump'.results # Jump.results /\ ~IsNull(Jump'.results))
             => /\ last'.op = "timer"
                /\ RGe(R(now), RAdd(Val(Jump.landingTime), R(SettleDelay)))
                /\ ~Jump'.isRunning
                /\ completeCount'["broad-jump"] = completeCount["broad-jump"] + 1
          /\ completeCount'["broad-jump"] > completeCount["broad-jump"]
             => last'.op = "timer"]_vars

\* C13: the settle timer of a landing has fired and left a result
C13_SettleTimerFinalized ==
    /\ last.op = "timer"
    /\ last.completed
    /\ ~IsNull(Jump.results)
    /\ ~Jump.isRunning
    /\ timers = {}
    /\ RGe(R(now), RAdd(Val(Jump.landingTime), R(SettleDelay)))

\* the calibrator of a test, and the meter values a calibration of its kind
\* expects
Cal(k) == tests[k].linesCalibrator
ExpectedMeters(k) ==
    CASE k = "broad-jump" -> <<R(0), R(3)>>
      [] k = "sprint" -> <<R(0), R(15), R(30)>>
      [] OTHER -> <<R(0), R(10)>>

\* a click that brings the points of a calibrating calibrator to the
\* expected count
ClickCompletes(k) ==
    /\ last'.op = "click"
    /\ Cal(k).isCalibrating
    /\ Len(Cal(k)'.calibrationPoints) = Len(ExpectedMeters(k))

\* C14: startCalibration leaves the calibrator calibrating, with no point
\* and the meter values of its kind; a calibrating calibrator holds fewer
\* points than meter values; the click that brings the points to the
\* expected count computes the parameters, clears isCalibrating, calls
\* onCalibrationComplete once and sets isCalibrated; and no other step
\* computes parameters, calls onCalibrationComplete, sets isCalibrated, or
\* ends a calibration by a click.
C14_CompletesAtExpectedCount ==
    /\ [](\A k \in TestKinds :
            Cal(k).isCalibrating
               => /\ Cal(k).meterValues = ExpectedMeters(k)
                  /\ Len(Cal(k).calibrationPoints) < Len(ExpectedMeters(k)))
    /\ [][\A k \in TestKinds :
            /\ (last'.op = "startCalibration" /\ k = active)
                  => /\ Cal(k)'.isCalibrating
                     /\ Cal(k)'.calibrationPoints = << >>
                     /\ Cal(k)'.meterValues = ExpectedMeters(k)
            /\ ClickCompletes(k)
                  => /\ last'.fired[k] = 1
                     /\ ~Cal(k)'.isCalibrating
                     /\ ~IsNull(Cal(k)'.calibrationParams)
                     /\ tests'[k].isCalibrated
            /\ ~ClickCompletes(k)
                  => /\ last'.fired[k] = 0
                     /\ Cal(k)'.calibrationParams = Cal(k).calibrationParams
                     /\ tests'[k].isCalibrated = tests[k].isCalibrated
                     /\ (last'.op = "click" /\ Cal(k).isCalibrating)
                           => Cal(k)'.isCalibrating]_vars

\* C14: the third click of a sprint calibration has completed it
C14_ThirdClickCompleted ==
    /\ last.op = "click"
    /\ last.fired["sprint"] = 1
    /\ Len(Cal("sprint").calibrationPoints) = 3
    /\ ~Cal("sprint").isCalibrating
    /\ tests["sprint"].isCalibrated

\* C15: whatever startCalibration, cancelCalibration and click calls came
\* before, a click pushes exactly one point, the clicked one, at the end of
\* the points of every calibrator that is calibrating, and none to a
\* calibrator that is not.
C15_ClickAddsOnePoint ==
    [][last'.op = "click"
          => \A k \in TestKinds :
                IF Cal(k).isCalibrating
                THEN /\ last'.pushed[k] = 1
                     /\ Cal(k)'.calibrationPoints
                           = Append(Cal(k).calibrationPoints, Val(last'.point))
                ELSE /\ last'.pushed[k] = 0
                     /\ Cal(k)'.calibrationPoints = Cal(k).calibrationPoints]_vars

\* cp is the projection from p1 at m1 towards p2 at m2: its origin is p1 at
\* m1; its direction is the unit vector from p1 to p2; its metersPerPixel
\* is (m2 - m1) over the distance from p1 to p2.  Where p1 = p2 the direction
\* is 0/0 and metersPerPixel is (m2 - m1)/0.
ProjectionBetween(cp, p1, p2, m1, m2) ==
    /\ cp.origin = p1
    /\ cp.originMeterValue = m1
    /\ IF p1 = p2
       THEN /\ IsNaN(cp.direction.x) /\ IsNaN(cp.direction.y)
            /\ cp.metersPerPixel = RDiv(RSub(m2, m1), R(0))
       ELSE /\ RMul(cp.direction.x, RSub(p2.y, p1.y))
                  = RMul(cp.direction.y, RSub(p2.x, p1.x))
            /\ RAdd(RMul(cp.direction.x, cp.direction.x),
                    RMul(cp.direction.y, cp.direction.y)) = R(1)
            /\ RGt(RAdd(RMul(cp.direction.x, RSub(p2.x, p1.x)),
                        RMul(cp.direction.y, RSub(p2.y, p1.y))), R(0))
            /\ RMul(RMul(cp.metersPerPixel, cp.metersPerPixel),
                    RAdd(RMul(RSub(p2.x, p1.x), RSub(p2.x, p1.x)),
                         RMul(RSub(p2.y, p1.y), RSub(p2.y, p1.y))))
                  = RMul(RSub(m2, m1), RSub(m2, m1))
            /\ RGt(RMul(cp.metersPerPixel, RSub(m2, m1)), R(0))

\* the parameters of calibrator c are those of its first and last point
ParamsFromEnds(c) ==
    /\ ~IsNull(c.calibrationParams)
    /\ ProjectionBetween(Val(c.calibrationParams),
                         c.calibrationPoints[1],
                         c.calibrationPoints[Len(c.calibrationPoints)],
                         c.meterValues[1], c.meterValues[Len(c.meterValues)])

\* C16: the parameters a completing click computes are the projection from
\* the first point at the first meter value towards the last point at the
\* last meter value; and with three points, the same calibration with any
\* other middle point computes the same parameters.
C16_ParamsFromFirstAndLast ==
    [][\A k \in TestKinds :
          ClickCompletes(k)
             => /\ ParamsFromEnds(Cal(k)')
                /\ Len(Cal(k)'.calibrationPoints) = 3
                      => \A q \in CalPoints :
                            calculateCalibrationParams(
                                [Cal(k)' EXCEPT !.calibrationPoints[2] = q])
                               = Cal(k)'.calibrationParams]_vars

\* C16: a sprint calibration has completed with its middle point off the
\* line of the other two
C16_MiddlePointOffLine ==
    /\ last.op = "click"
    /\ last.fired["sprint"] = 1
    /\ Cal("sprint").calibrationPoints = <<Markers[1], Pt(R(340), R(60)), Markers[3]>>
    /\ ~IsNull(Cal("sprint").calibrationParams)

\* the cross product of p2 - p1 and p3 - p1 is at or above the tolerance
NotCollinear(points) ==
    RGe(RAbs(RSub(RMul(RSub(points[2].x, points[1].x), RSub(points[3].y, points[1].y)),
                  RMul(RSub(points[2].y, points[1].y), RSub(points[3].x, points[1].x)))),
        R(CollinearityTolerance))

\* C17: a click warns exactly when it completes a sprint calibration whose
\* three points are not collinear; and a click that completes a sprint
\* calibration, collinear or not, computes the parameters of the first and
\* last point, clears isCalibrating, saves the calibration under sprint,
\* sets isCalibrated and calls onCalibrationComplete once.
C17_NotCollinearOnlyWarns ==
    [][last'.op = "click"
          => /\ last'.warned
                   <=> /\ ClickCompletes("sprint")
                       /\ NotCollinear(Cal("sprint")'.calibrationPoints)
             /\ ClickCompletes("sprint")
                   => /\ ParamsFromEnds(Cal("sprint")')
                      /\ ~Cal("sprint")'.isCalibrating
                      /\ tests'["sprint"].isCalibrated
                      /\ last'.fired["sprint"] = 1
                      /\ ~IsNull(savedCalibrations')
                      /\ Val(savedCalibrations')["sprint"]
                            = Some(JSONCalibration(getCalibrationData(Cal("sprint")')))]_vars

\* C17: a sprint calibration with points not collinear has completed with a
\* warning and is saved
C17_WarnedAndCompleted ==
    /\ last.op = "click"
    /\ last.warned
    /\ last.fired["sprint"] = 1
    /\ NotCollinear(Cal("sprint").calibrationPoints)
    /\ ~IsNull(Cal("sprint").calibrationParams)
    /\ ~IsNull(savedCalibrations)
    /\ ~IsNull(Val(savedCalibrations)["sprint"])

\* the first and the last calibration point of a calibrator
FirstPoint(c) == c.calibrationPoints[1]
LastPoint(c) == c.calibrationPoints[Len(c.calibrationPoints)]

\* the calibrator of the current test holds a calibration whose first and
\* last point differ
CalibratedOnLine ==
    /\ ~Cal(active).isCalibrating
    /\ ~IsNull(Cal(active).calibrationParams)
    /\ Len(Cal(active).calibrationPoints) = Len(ExpectedMeters(active))
    /\ FirstPoint(Cal(active)) # LastPoint(Cal(active))

\* C18: with a calibration whose first and last point differ, projectPxToM
\* of the first point returns the first meter value and projectPxToM of the
\* last point returns the last meter value.
C18_EndsProjectToTheirMeters ==
    (last.op = "projectPxToM" /\ CalibratedOnLine)
       => /\ last.point = Some(FirstPoint(Cal(active)))
                => last.returned = Some(ExpectedMeters(active)[1])
          /\ last.point = Some(LastPoint(Cal(active)))
                => last.returned
                      = Some(ExpectedMeters(active)[Len(ExpectedMeters(active))])

\* C18: projectPxToM was applied to the last point of a sprint calibration
\* whose ends differ
C18_LastPointProjected ==
    /\ last.op = "projectPxToM"
    /\ active = "sprint"
    /\ CalibratedOnLine
    /\ last.point = Some(LastPoint(Cal(active)))
    /\ last.returned = Some(R(30))

\* point p lies on the line through the ends of the calibration of the
\* current test
OnCalibrationLine(p) ==
    RMul(RSub(LastPoint(Cal(active)).x, FirstPoint(Cal(active)).x),
         RSub(p.y, FirstPoint(Cal(active)).y))
       = RMul(RSub(LastPoint(Cal(active)).y, FirstPoint(Cal(active)).y),
              RSub(p.x, FirstPoint(Cal(active)).x))

\* C19: with a calibration whose ends differ, projectMToPx of what
\* projectPxToM returned for a point of the calibration line is that point,
\* and projectPxToM of what projectMToPx returned for a meter value is that
\* meter value.
C19_ProjectionsRoundTrip ==
    /\ (last.op = "projectPxToM" /\ CalibratedOnLine
           /\ OnCalibrationLine(Val(last.point)))
          => /\ ~IsNull(last.returned)
             /\ projectMToPx(Cal(active), Val(last.returned)) = last.point
    /\ (last.op = "projectMToPx" /\ CalibratedOnLine)
          => /\ ~IsNull(last.returned)
             /\ projectPxToM(Cal(active), Val(last.returned)) = last.point

\* C19: projectPxToM was applied to a point of the calibration line that is
\* neither end of it
C19_LinePointProjected ==
    /\ last.op = "projectPxToM"
    /\ CalibratedOnLine
    /\ OnCalibrationLine(Val(last.point))
    /\ Val(last.point) \notin {FirstPoint(Cal(active)), LastPoint(Cal(active))}
    /\ Val(last.point) \notin CalPoints

\* C20: after a click completes a calibration of kind K, loadCalibration(K)
\* on a new calibrator returns true and leaves it with the points, the
\* meter values and the parameters of the completed calibrator; the save of
\* kind K leaves what is stored for the other kinds as it was; and
\* loadCalibration of a kind with nothing stored returns false and leaves
\* the new calibrator as constructed.
C20_SavedCalibrationRestored ==
    [][/\ \A k \in TestKinds :
            ClickCompletes(k)
               => /\ loadCalibration(NewLinesCalibrator, k, savedCalibrations')
                        = [calibrator |->
                              [NewLinesCalibrator EXCEPT
                                  !.testType = Some(k),
                                  !.calibrationPoints = Cal(k)'.calibrationPoints,
                                  !.meterValues = Cal(k)'.meterValues,
                                  !.calibrationParams = Cal(k)'.calibrationParams],
                           returned |-> TRUE]
                  /\ \A j \in TestKinds \ {k} :
                        last'.fired[j] = 0
                           => Val(savedCalibrations')[j]
                                 = (IF IsNull(savedCalibrations) THEN Null
                                    ELSE Val(savedCalibrations)[j])
       /\ last'.op = "loadCalibration"
             => IF IsNull(savedCalibrations) \/ IsNull(Val(savedCalibrations)[Val(last'.kind)])
                THEN /\ last'.returned = Some(FALSE)
                     /\ last'.calibrator = Some(NewLinesCalibrator)
                ELSE /\ last'.returned = Some(TRUE)
                     /\ Val(last'.calibrator).calibrationPoints
                           = Val(Val(savedCalibrations)[Val(last'.kind)]).points]_vars

\* the state the calls of a log leave for an id, where clearTracking(x)
\* removes the state of x alone and clearTracking() removes every state
RECURSIVE TrackedBy(_, _)
TrackedBy(log, id) ==
    IF log = << >> THEN Null
    ELSE IF log[Len(log)].op = "trackPosition"
         THEN IF log[Len(log)].id = Some(id) THEN log[Len(log)].sample
              ELSE TrackedBy(SubSeq(log, 1, Len(log) - 1), id)
    ELSE IF IsNull(log[Len(log)].id) \/ log[Len(log)].id = Some(id) THEN Null
    ELSE TrackedBy(SubSeq(log, 1, Len(log) - 1), id)

\* no clearTracking of the log was given the empty id
NoEmptyIdCleared(log) ==
    \A i \in DOMAIN log : ~(log[i].op = "clearTracking" /\ log[i].id = Some(""))

\* C21: trackPosition(id, position, timestamp) leaves the sample as the
\* state of id and the state of every other id as it was, and returns the
\* state the detector held for id: the sample of the latest earlier
\* trackPosition of id with no clear of id since, and none when there is no
\* such call.
C21_TrackPositionReturnsPrevious ==
    [][last'.op = "trackPosition"
          => /\ lib'.eventDetector
                   = [lib.eventDetector EXCEPT
                         ![last'.args[1]] = Some([position |-> last'.args[2],
                                                  timestamp |-> last'.args[3]])]
             /\ last'.returned = lib.eventDetector[last'.args[1]]
             /\ NoEmptyIdCleared(history.log)
                   => last'.returned = TrackedBy(history.log, last'.args[1])]_vars

\* C21: trackPosition has returned the sample of an earlier call while
\* another id was tracked too
C21_PreviousReturned ==
    /\ last.op = "trackPosition"
    /\ last.args[1] = "jumper"
    /\ ~IsNull(last.returned)
    /\ Val(last.returned).timestamp # last.args[3]
    /\ ~IsNull(lib.eventDetector["ball"])

\* C22: after any calls the detector holds for every id the state those
\* calls leave where clearTracking(id) removes the state of id alone and
\* clearTracking() removes every state; so a trackPosition of a cleared id
\* returns none.
C22_ClearRemovesThatId ==
    \A id \in CallIds : lib.eventDetector[id] = TrackedBy(history.log, id)

\* the crossing r of the line x = lineX between the samples prev and curr:
\* its fraction, within [0,1], its time between the two times, its position
\* on the line and its direction
VerticalCrossingBetween(r, prev, curr, lineX) ==
    /\ r.tFraction = RDiv(RSub(lineX, prev.x), RSub(curr.x, prev.x))
    /\ RGe(r.tFraction, R(0)) /\ RLe(r.tFraction, R(1))
    /\ r.time = RAdd(DetectTimes.prev,
                     RMul(r.tFraction, RSub(DetectTimes.curr, DetectTimes.prev)))
    /\ RGe(r.time, DetectTimes.prev) /\ RLe(r.time, DetectTimes.curr)
    /\ r.position = Pt(lineX, RAdd(prev.y, RMul(r.tFraction, RSub(curr.y, prev.y))))
    /\ (r.direction = "right") <=> RGt(curr.x, prev.x)

\* the two examples: from (5,0) to (15,10) over x = 10, and from x = 5 to
\* x = 8 short of x = 10
VerticalCrossingExamples ==
    /\ last.args = <<Some(Pt(R(5), R(0))), Some(Pt(R(15), R(10))), R(10)>>
          => /\ ~IsNull(last.returned)
             /\ Val(last.returned).tFraction = <<1, 2>>
             /\ Val(last.returned).position = Pt(R(10), R(5))
    /\ (/\ ~IsNull(last.args[1]) /\ ~IsNull(last.args[2])
        /\ Val(last.args[1]).x = R(5) /\ Val(last.args[2]).x = R(8)
        /\ last.args[3] = R(10))
          => IsNull(last.returned)

\* detectVerticalLineCrossing was called on two samples
VerticalCall ==
    /\ last.op = "detectVerticalLineCrossing"
    /\ ~IsNull(last.args[1])
    /\ ~IsNull(last.args[2])

\* C23 as stated: a crossing is reported exactly when the x of the two
\* samples lie on different sides of the line, one below lineX and the other
\* above it; a reported crossing has the fraction, time, position and
\* direction of the interpolation; the two examples give their results.
C23_CrossingIffDifferentSides ==
    VerticalCall
       => /\ ~IsNull(last.returned)
                <=> \/ /\ RLt(Val(last.args[1]).x, last.args[3])
                       /\ RGt(Val(last.args[2]).x, last.args[3])
                    \/ /\ RGt(Val(last.args[1]).x, last.args[3])
                       /\ RLt(Val(last.args[2]).x, last.args[3])
          /\ ~IsNull(last.returned)
                => VerticalCrossingBetween(Val(last.returned), Val(last.args[1]),
                                           Val(last.args[2]), last.args[3])
          /\ VerticalCrossingExamples

\* C23 amended: a crossing is reported exactly when one of the two x is
\* below lineX and the other is not (a sample on the line counts with those
\* beyond it); a reported crossing has the fraction, time, position and
\* direction of the interpolation; the two examples give their results.
C23_CrossingIffOneBelow ==
    VerticalCall
       => /\ ~IsNull(last.returned)
                <=> (RLt(Val(last.args[1]).x, last.args[3])
                        # RLt(Val(last.args[2]).x, last.args[3]))
          /\ ~IsNull(last.returned)
                => VerticalCrossingBetween(Val(last.returned), Val(last.args[1]),
                                           Val(last.args[2]), last.args[3])
          /\ VerticalCrossingExamples

\* C23: the example from (5,0) to (15,10) over x = 10 was detected half way
C23_ExampleCrossing ==
    /\ VerticalCall
    /\ last.args = <<Some(Pt(R(5), R(0))), Some(Pt(R(15), R(10))), R(10)>>
    /\ ~IsNull(last.returned)
    /\ Val(last.returned).tFraction = <<1, 2>>
    /\ Val(last.returned).time = R(20)

\* point p lies on the segment from a to b
OnSegment(p, a, b) ==
    /\ RMul(RSub(b.x, a.x), RSub(p.y, a.y)) = RMul(RSub(b.y, a.y), RSub(p.x, a.x))
    /\ RGe(RAdd(RMul(RSub(p.x, a.x), RSub(b.x, a.x)),
                RMul(RSub(p.y, a.y), RSub(b.y, a.y))), R(0))
    /\ RLe(RAdd(RMul(RSub(p.x, a.x), RSub(b.x, a.x)),
                RMul(RSub(p.y, a.y), RSub(b.y, a.y))),
           RAdd(RMul(RSub(b.x, a.x), RSub(b.x, a.x)),
                RMul(RSub(b.y, a.y), RSub(b.y, a.y))))

\* the segments from a to b and from c to d are parallel
Parallel(a, b, c, d) ==
    RMul(RSub(b.x, a.x), RSub(d.y, c.y)) = RMul(RSub(b.y, a.y), RSub(d.x, c.x))

\* C24: a crossing detectLineCrossing reports has its fraction t in [0,1],
\* its position prev + t*(curr - prev) on the segment of the line (so u in
\* [0,1] too) and its time prevTime + t*(currTime - prevTime); and no
\* crossing is reported for a movement parallel to the line.
C24_CrossingWithinBothSegments ==
    (/\ last.op = "detectLineCrossing"
     /\ ~IsNull(last.args[1]) /\ ~IsNull(last.args[2]) /\ ~IsNull(last.args[3]))
       => /\ ~IsNull(last.returned)
                => /\ RGe(Val(last.returned).tFraction, R(0))
                   /\ RLe(Val(last.returned).tFraction, R(1))
                   /\ Val(last.returned).position
                         = Pt(RAdd(Val(last.args[1]).x,
                                   RMul(Val(last.returned).tFraction,
                                        RSub(Val(last.args[2]).x, Val(last.args[1]).x))),
                              RAdd(Val(last.args[1]).y,
                                   RMul(Val(last.returned).tFraction,
                                        RSub(Val(last.args[2]).y, Val(last.args[1]).y))))
                   /\ OnSegment(Val(last.returned).position,
                                Val(last.args[3]).p1, Val(last.args[3]).p2)
                   /\ Val(last.returned).time
                         = RAdd(DetectTimes.prev,
                                RMul(Val(last.returned).tFraction,
                                     RSub(DetectTimes.curr, DetectTimes.prev)))
          /\ Parallel(Val(last.args[1]), Val(last.args[2]),
                      Val(last.args[3]).p1, Val(last.args[3]).p2)
                => IsNull(last.returned)

\* C24: a movement from (5,0) to (15,10) was found to cross the line from
\* (10,0) to (10,10) half way
C24_SegmentCrossed ==
    /\ last.op = "detectLineCrossing"
    /\ last.args = <<Some(Pt(R(5), R(0))), Some(Pt(R(15), R(10))),
                     Some([p1 |-> Pt(R(10), R(0)), p2 |-> Pt(R(10), R(10))])>>
    /\ ~IsNull(last.returned)
    /\ Val(last.returned).tFraction = <<1, 2>>
    /\ Val(last.returned).position = Pt(R(10), R(5))

\* the y of the two samples of a detectLanding or detectTakeoff call
PrevY == Val(last.args[1]).y
CurrY == Val(last.args[2]).y

\* C25: detectLanding returns true exactly when prev.y < groundY <= curr.y
\* and curr.y - prev.y is at least the minimum vertical speed, and
\* detectTakeoff exactly when prev.y >= groundY > curr.y and prev.y - curr.y
\* is at least it; so neither fires on a slower movement across the ground
\* level.
C25_LandingAndTakeoffNeedSpeed ==
    /\ (last.op = "detectLanding" /\ ~IsNull(last.args[1]) /\ ~IsNull(last.args[2]))
          => (last.returned = Some(TRUE)
                 <=> /\ RLt(PrevY, GroundLevel) /\ RLe(GroundLevel, CurrY)
                     /\ RGe(RSub(CurrY, PrevY), R(MinVerticalSpeed)))
    /\ (last.op = "detectTakeoff" /\ ~IsNull(last.args[1]) /\ ~IsNull(last.args[2]))
          => (last.returned = Some(TRUE)
                 <=> /\ RGe(PrevY, GroundLevel) /\ RGt(GroundLevel, CurrY)
                     /\ RGe(RSub(PrevY, CurrY), R(MinVerticalSpeed)))

\* C25: detectLanding was called on a movement of one pixel across the
\* ground level and returned false
C25_SlowLandingNotDetected ==
    /\ last.op = "detectLanding"
    /\ last.args = <<Some(Pt(R(320), R(383))), Some(Pt(R(320), R(384)))>>
    /\ last.returned = Some(FALSE)

\* the values added by the calls of log since its last reset
RECURSIVE SinceReset(_)
SinceReset(log) ==
    IF log = << >> \/ log[Len(log)].op = "reset" THEN << >>
    ELSE Append(SinceReset(SubSeq(log, 1, Len(log) - 1)), Val(log[Len(log)].sample))

\* the last n elements of q, all of q where it has fewer
LastOf(q, n) == IF Len(q) <= n THEN q ELSE SubSeq(q, Len(q) - n + 1, Len(q))

\* C26: after any addValue and reset calls a SmoothingFilter of window N
\* holds the last min(k, N) of the k values added since the last reset, in
\* arrival order, and addValue returns their arithmetic mean; window 3 fed
\* 1, 2, 3, 4 returns 1, 1.5, 2, 3, and a first value is returned unchanged.
C26_BufferIsLastValues ==
    /\ lib.filter.dataBuffer = LastOf(SinceReset(history.log), lib.filter.windowSize)
    /\ Len(lib.filter.dataBuffer) <= lib.filter.windowSize
    /\ last.op = "addValue"
          => /\ last.returned
                   = Some(RDiv(SumSeq(lib.filter.dataBuffer), R(Len(lib.filter.dataBuffer))))
             /\ Len(SinceReset(history.log)) = 1 => last.returned = Some(last.args[1])
             /\ lib.filter.windowSize = 3
                   => /\ SinceReset(history.log) = <<R(1)>> => last.returned = Some(R(1))
                      /\ SinceReset(history.log) = <<R(1), R(2)>>
                            => last.returned = Some(<<3, 2>>)
                      /\ SinceReset(history.log) = <<R(1), R(2), R(3)>>
                            => last.returned = Some(R(2))
                      /\ SinceReset(history.log) = <<R(1), R(2), R(3), R(4)>>
                            => last.returned = Some(R(3))

\* C26: a filter of window 3 was fed 1, 2, 3, 4 and returned 3
C26_WindowThreeFedFour ==
    /\ lib.filter.windowSize = 3
    /\ last.op = "addValue"
    /\ SinceReset(history.log) = <<R(1), R(2), R(3), R(4)>>
    /\ last.returned = Some(R(3))

\* the smoother before and after a call of addPosition
Smoother == lib.speedSmoother
LastEntry(q) == q[Len(q)]

\* the call of addPosition of this step is of a first sample, or of a sample
\* whose timestamp is not later than the one before
NotLater(timestamp) ==
    \/ IsNull(Smoother.previousTime)
    \/ RLe(timestamp, Val(Smoother.previousTime))

\* C27: addPosition feeds the speed 0 into the speed filter for a first
\* sample and for a sample whose timestamp is not later than the previous
\* one, no speed it feeds is the result of a division by a zero or negative
\* time, and the sample is appended to the history and becomes the previous
\* sample all the same.
C27_NotLaterSampleFeedsZero ==
    [][last'.op = "addPosition"
         => /\ NotLater(last'.args[2]) => LastEntry(Smoother'.speedFilter) = R(0)
            /\ IsFinite(LastEntry(Smoother'.speedFilter))
            /\ RGe(LastEntry(Smoother'.speedFilter), R(0))
            /\ Len(Smoother'.speedHistory) = Len(Smoother.speedHistory) + 1
            /\ LastEntry(Smoother'.speedHistory).time = last'.args[2]
            /\ LastEntry(Smoother'.speedHistory).position.y = last'.args[1].y
            /\ Smoother'.previousTime = Some(last'.args[2])
            /\ Smoother'.previousPosition
                  = Some(LastEntry(Smoother'.speedHistory).position)]_vars

\* C27: two samples of the same timestamp 10 at different places were
\* added, and the second fed the speed 0
C27_DuplicateTimestampAdded ==
    /\ last.op = "addPosition"
    /\ Len(history.log) = 2
    /\ Val(history.log[1].sample) = [position |-> Pt(R(0), R(0)), timestamp |-> R(10)]
    /\ Val(history.log[2].sample) = [position |-> Pt(R(6), R(0)), timestamp |-> R(10)]
    /\ Smoother.speedFilter = <<R(0), R(0)>>
    /\ Len(Smoother.speedHistory) = 2

\* the two-point difference of the two most recent of the samples added by
\* the calls of log, 0 where there are fewer than two or no time has passed
TwoPointDifference(log) ==
    IF Len(log) < 2 THEN R(0)
    ELSE IF RLe(RSub(Val(log[Len(log)].sample).timestamp,
                     Val(log[Len(log) - 1].sample).timestamp), R(0))
    THEN R(0)
    ELSE RDiv(RSub(Val(log[Len(log)].sample).speed, Val(log[Len(log) - 1].sample).speed),
              RSub(Val(log[Len(log)].sample).timestamp,
                   Val(log[Len(log) - 1].sample).timestamp))

\* C28: whatever the window size, addSpeed returns the two-point difference
\* of the two most recent samples, 0 with fewer than two samples or no
\* positive elapsed time ((2, 0) then (5, 1000) give 0.003), and the stored
\* samples stay bounded.
C28_TwoPointDifferenceAnyWindow ==
    /\ Len(lib.accelerationCalculator.speedHistory)
          <= 2 * lib.accelerationCalculator.windowSize
    /\ last.op = "addSpeed" => last.returned = Some(TwoPointDifference(history.log))

\* C29: startAthleticTest on a test that is not calibrated, or with no user
\* height set, reports an error and does nothing else: startTest is not
\* called (the test is left as it is, not running where it was not), and
\* the frame loop is not started.
C29_StartBlockedWithoutPreconditions ==
    [][(/\ last'.op = "startAthleticTest"
        /\ ~tests[active].isCalibrated \/ IsNull(app.userHeight))
          => /\ last'.threw
             /\ tests' = tests
             /\ ~tests[active].isRunning => ~tests'[active].isRunning
             /\ app'.isFrameLoopRunning = app.isFrameLoopRunning
             /\ camera' = camera
             /\ poseDetector' = poseDetector]_vars

\* C29: startAthleticTest was refused on a calibrated test for the lack of a
\* user height
C29_RefusedForHeight ==
    /\ last.op = "startAthleticTest"
    /\ last.threw
    /\ tests[active].isCalibrated
    /\ IsNull(app.userHeight)
    /\ ~tests[active].isRunning
    /\ ~app.isFrameLoopRunning

\* the pose engine answers a request in this step
PoseAnswered == Len(poseDetector'.sent) < Len(poseDetector.sent)

\* C30: switchTestTab leaves the frame loop stopped when it has replaced the
\* selection, and the result of a pose request that was in flight at the
\* switch is passed to processFrame of no test.
C30_InFlightResultDropped ==
    [][/\ last'.op = "switchTestTab"
            => ~app'.isFrameLoopRunning /\ ~camera'.frameLoop
       /\ (PoseAnswered /\ poseDetector.inFlightAtSwitch > 0)
            => last'.op # "processFrame"]_vars

\* the length expected of the segment for the height of the call
ExpectedLength(name) == RMul(R(last.args[2]), standardProportions[name])

\* C31: every segment that validateMeasurements returns with a value lies
\* within 0.7 and 1.3 times the length expected for the height: what was
\* outside is clamped to the nearer of the two, not kept and not discarded.
C31_ValidatedWithinProportions ==
    last.op = "validateMeasurements"
       => \A name \in SegmentNames :
             ~IsNull(last.args[1][name])
                => /\ ~IsNull(Val(last.returned)[name])
                   /\ RGe(Val(Val(last.returned)[name]),
                          RMul(<<7, 10>>, ExpectedLength(name)))
                   /\ RLe(Val(Val(last.returned)[name]),
                          RMul(<<13, 10>>, ExpectedLength(name)))

\* the test of kind k is calibrated on a line of no length: the first and
\* the last point of its calibration are the same
ZeroLengthLine(k) ==
    /\ tests[k].isCalibrated
    /\ ~Cal(k).isCalibrating
    /\ ~IsNull(Cal(k).calibrationParams)
    /\ Len(Cal(k).calibrationPoints) >= 2
    /\ FirstPoint(Cal(k)) = LastPoint(Cal(k))

\* C32: a calibration on a line of no length completes without raising, and
\* on such a calibration no processFrame of the sprint or the kick test
\* raises, records a line crossing or produces a result.
C32_ZeroLengthLineGivesNoEvent ==
    [][/\ (last'.op = "click" /\ ZeroLengthLine(active)') => ~last'.threw
       /\ (last'.op = "processFrame" /\ active \in {"sprint", "kick"}
             /\ ZeroLengthLine(active))
            => /\ ~last'.threw
               /\ last'.recorded = {}
               /\ ~last'.completed
               /\ tests'[active].results = tests[active].results
               /\ completeCount' = completeCount
               /\ active = "sprint"
                     => /\ tests'.sprint.crossingTimes = tests.sprint.crossingTimes
                        /\ tests'.sprint.nextCrossingIndex = tests.sprint.nextCrossingIndex
               /\ active = "kick"
                     => /\ tests'.kick.startLineTime = tests.kick.startLineTime
                        /\ tests'.kick.endLineTime = tests.kick.endLineTime]_vars

\* C32: the running sprint test, calibrated on a line of no length, has
\* processed two frames of a runner at two places
C32_RunnerOnZeroLengthLine ==
    /\ active = "sprint"
    /\ ZeroLengthLine("sprint")
    /\ tests.sprint.isRunning
    /\ last.op = "processFrame"
    /\ ~last.lacking
    /\ Len(tests.sprint.speedSmoother.speedHistory) >= 2
    /\ tests.sprint.speedSmoother.speedHistory[1].position.x
          # tests.sprint.speedSmoother.speedHistory[2].position.x

\* C33: no test holds a result while it is running; a startTest that starts
\* the test leaves it without a result, and when onTestComplete is called
\* the result is set and the test is stopped.
C33_ResultExcludesRunning ==
    /\ [](\A k \in TestKinds : ~IsNull(tests[k].results) => ~tests[k].isRunning)
    /\ [](last.completed => ~IsNull(tests[active].results) /\ ~tests[active].isRunning)
    /\ [][(last'.op = "startTest" /\ ~last'.threw)
             => /\ tests'[active].isRunning
                /\ IsNull(tests'[active].results)]_vars

\* C33: a test that holds the result of a finalized attempt was started
\* again, and is running without a result
C33_StartedAfterResult ==
    /\ last.op = "startTest"
    /\ ~last.threw
    /\ active = "sprint"
    /\ tests.sprint.nextCrossingIndex = 3
    /\ tests.sprint.isRunning
    /\ IsNull(tests.sprint.results)

\* the crossing times the sprint test holds
Crossed == tests.sprint.crossingTimes

\* C34: the crossing times the sprint test has recorded are in the order of
\* the lines (t0 <= t15 <= t30), and the splits and the total time of a
\* sprint result are not negative; the clock of the frames never goes back.
C34_CrossingTimesInOrder ==
    /\ (HasTime(Crossed.t0) /\ HasTime(Crossed.t15))
          => RLe(NumOf(Crossed.t0), NumOf(Crossed.t15))
    /\ (HasTime(Crossed.t15) /\ HasTime(Crossed.t30))
          => RLe(NumOf(Crossed.t15), NumOf(Crossed.t30))
    /\ ~IsNull(tests.sprint.results)
          => /\ RGe(Val(tests.sprint.results).splits.s0to15, R(0))
             /\ RGe(Val(tests.sprint.results).splits.s15to30, R(0))
             /\ RGe(Val(tests.sprint.results).totalTime, R(0))

\* the frames of a ball trajectory have strictly increasing timestamps
IncreasingTimestamps(ballTrajectory) ==
    \A i \in 1..(Len(ballTrajectory) - 1) :
        RLt(ballTrajectory[i].timestamp, ballTrajectory[i + 1].timestamp)

C36_CompletionOfSelectedKind ==
    [][\A k \in TestKinds :
          completeCount'[k] > completeCount[k] => active = k]_vars

\* the event state of a test, which only resetTest clears
EventState(test) ==
    CASE test.testType = "broad-jump" ->
             <<test.takeoffPosition, test.landingDetected, test.landingPosition,
               test.landingTime>>
      [] test.testType = "sprint" -> <<test.crossingTimes, test.nextCrossingIndex>>
      [] OTHER -> <<test.startLineTime, test.endLineTime>>

\* the attempt of kind k has come to its end: the jump has taken off and
\* landed and its settle timer has fired, the sprint has crossed its three
\* lines, the kick has both line times
Spent(k) ==
    CASE k = "broad-jump" -> /\ ~IsNull(tests[k].takeoffPosition)
                             /\ tests[k].landingDetected
                             /\ timers = {}
      [] k = "sprint" -> tests[k].nextCrossingIndex = 3
      [] OTHER -> HasTime(tests[k].startLineTime) /\ HasTime(tests[k].endLineTime)

\* C37: once an attempt has come to its end, every step but a resetTest,
\* startTest and the frames after it included, keeps the event state, records
\* no event, sets no result and calls no onTestComplete.
C37_SpentUntilReset ==
    [][\A k \in TestKinds :
          (Spent(k) /\ last'.op # "resetTest")
              => /\ EventState(tests'[k]) = EventState(tests[k])
                 /\ timers' = timers
                 /\ last'.recorded = {}
                 /\ ~last'.completed
                 /\ completeCount'[k] <= completeCount[k]
                 /\ tests'[k].results \in {tests[k].results, Null}]_vars

\* a new attempt of the sprint test, spent, has seen a frame of the runner
C37_FrameOfSecondAttempt ==
    /\ Spent(active)
    /\ tests[active].isRunning
    /\ IsNull(tests[active].results)
    /\ last.op = "processFrame"
    /\ ~last.lacking
    /\ active = "sprint"

\* C38: with the ball tracker of the repository detectBall returns no ball:
\* the tracker never holds a detected ball, and the kick test never tracks a
\* position of the ball, tests or records no line crossing and never finalizes.
C38_NoBallEver ==
    /\ IsNull(tests.kick.ballTracker.lastDetectedBall)
    /\ tests.kick.ballTracker.ballHistory = << >>
    /\ ~tests.kick.ballDetected
    /\ IsNull(tests.kick.eventDetector["ball"])
    /\ IsNull(tests.kick.startLineTime) /\ IsNull(tests.kick.endLineTime)
    /\ IsNull(tests.kick.results)
    /\ completeCount.kick = 0
    /\ last.tested = {} /\ last.recorded = {} /\ ~last.completed

\* a frame has reached the running, calibrated kick test some time after its
\* start
C38_FrameOfRunningKick ==
    /\ last.op = "processFrame"
    /\ tests.kick.isRunning
    /\ tests.kick.isCalibrated
    /\ tests.kick.ballTracker.isTracking
    /\ RGt(R(now), Val(tests.kick.startTime))

\* a calibrated test has projection parameters: both projections answer
CalibratedHasParams ==
    \A k \in TestKinds :
        tests[k].isCalibrated
            => /\ ~IsNull(tests[k].linesCalibrator.calibrationParams)
               /\ ~IsNull(projectMToPx(tests[k].linesCalibrator, R(0)))
               /\ ~IsNull(getDistanceInMeters(tests[k].linesCalibrator,
                                              Markers[1], Markers[3]))

\* the settle timer of a jump whose landing was detected leaves a result
LandedJumpFinalizes ==
    (/\ last'.op = "timer"
     /\ tests["broad-jump"].landingDetected)
        => /\ last'.completed
           /\ ~IsNull(tests'["broad-jump"].results)

\* C39: a test whose isCalibrated flag is true has projection parameters,
\* whatever calls were made on its calibrator, and so the settle timer of a
\* jump whose landing was detected finalizes with a result.
C39_CalibratedFinalizes == []CalibratedHasParams /\ [][LandedJumpFinalizes]_vars

\* the pose engine answers a request of the frame loop with landmarks while
\* the frame loop and the selected test are running
FrameAnswered ==
    /\ poseDetector.sent # << >>
    /\ Head(poseDetector.sent) = "frame"
    /\ poseDetector'.sent = Tail(poseDetector.sent)
    /\ app.isFrameLoopRunning
    /\ tests[active].isRunning
    /\ ~(last'.op = "poseResults" /\ IsNull(last'.args[1]))

\* C40: the landmarks the pose engine returns for a frame of the frame loop,
\* the loop and the test running, reach processFrame of the test, whether a
\* photo was captured before or not.
C40_FrameResultReachesTest ==
    [][FrameAnswered => last'.op = "processFrame"]_vars

=============================================================================
